---- MODULE Spec2Model ----
(***************************************************************************)
(* Model of the recommendation core of guanguoyintao/luban:                *)
(*   - the multi-source parallel recall layer                              *)
(*     (internal/datacollection/datasource/multi.go),                      *)
(*   - the hybrid blender's merge / reorder pipeline                       *)
(*     (internal/recommendation/algorithms/hybridfiltering.go).            *)
(* Scores are fixed-point integers: a RecallResult score is in units of    *)
(* 1/100 (0.8 is 80).                                                      *)
(***************************************************************************)
EXTENDS Integers, Sequences, FiniteSets, TLC, Bags

\* ------------------------------------------------------------------ bounds
\* number of data sources of the MultiDataSource
NumSources == 2
\* longest item list one source hands back to a recall strategy
MaxRecallItems == 1
\* items held by a MultiRecall that a caller fills through AddResult
MaxPoolItems == 3
\* MergeResults calls on one MultiRecall (provenance lists grow with each call)
MaxMerges == 2
\* ratings recorded in the collaborative engine
MaxRatings == 2
\* largest topN asked of the hybrid engine
MaxTopN == 2
\* interactions recorded in the content engine
MaxBehaviors == 1
\* interactions recorded while the content engine is exercised alone
MaxProfileBehaviors == 2
\* days that pass while profiles are built
MaxElapsedDays == 1

\* ------------------------------------------------------- program constants
PopularScore == 80
SimilarUsersScore == 70
RecentBehaviorScore == 60
CategoryPreferenceScore == 75
EmptyScore == 0
\* HybridFilteringConfig defaults, in percent
CollaborativeWeight == 40
ContentBasedWeight == 40
DiversityWeight == 10
PopularityWeight == 5
RecencyWeight == 5

\* ---------------------------------------------------------------- universes
\* m.sources, in slice order; a source is identified by its (distinct) name.
Sources == 1..NumSources
ItemIDs == {"i1", "i2"}
KnownTypes == {"popular", "similar_users", "recent_behavior", "category_preference"}
RecallTypeNames == KnownTypes \cup {"bogus"}

\* the engines' users, catalog and categories
Users == {"u1", "u2"}
CatalogItems == {"i1", "i2", "i3"}
Categories == {"c1", "c2"}
RatingValues == {5}

\* float64 scores of the engines as fixed point: One is 1.0, Fx(p) is p/100
One == 12000
Fx(p) == (p * One) \div 100

\* GetName of a data source.
GetName(s) == s

\* A metadata map is a heap object: NilMeta is the nil map, <<s, i>> the map
\* owned by source s's record of item i (MemoryDataSource hands out the same
\* map every time it returns the item).
NilMeta == <<0, "nil">>
OwnMeta(s, i) == <<s, i>>
\* the map MergeResults makes for a record of source s whose Metadata is nil;
\* it is reachable only through the merged item and holds the one name s
FreshMeta(s) == <<s, "fresh">>
MapRefs == Sources \X ItemIDs
\* the value of Metadata["sources"]: absent (<<0>>, 0 names no source), or a
\* list of source names
NoSources == <<0>>

\* the recallTypes arguments ParallelRecall is called with
RecallTypeLists == UNION {[1..k -> RecallTypeNames] : k \in {0, 1, 2}}

SeqsUpTo(S, n) == UNION {[1..k -> S] : k \in 0..n}

VARIABLES
    recallTypes,    \* argument of the running ParallelRecall call
    cpc,            \* coordinator: position in ParallelRecall
    launchIdx,      \* loop variable of the launch loop
    wpc,            \* per-source worker goroutine position
    wres,           \* per-worker locals (result, err) of executeRecall
    executed,       \* per-source log of recall strategies run in this call
    wg,             \* sync.WaitGroup counter
    errChan,        \* [buf, closed]
    doneChan,       \* [buf, closed]
    kpc,            \* the goroutine that waits and closes the channels
    successCount,
    errorCount,
    results,        \* MultiRecall.results : source name -> RecallResult
    retErr,         \* error returned by ParallelRecall ("pending" before return)
    heap,           \* metadata maps: MapRefs -> value under key "sources"
    merged,         \* outcome of the last MergeResults call
    mergeCalls,
    srcUnhealthy,   \* sources whose HealthCheck currently returns an error
    srcCloseFails,  \* sources whose Close currently returns an error
    healthBad,      \* the unhealthy sources at the last HealthCheck call
    healthLog,      \* sources whose HealthCheck ran in the last HealthCheck call
    healthRet,      \* error it returned: the set of sources the error names
    healthCalled,
    closeBad,       \* the sources whose Close failed in the last Close call
    closeLog,       \* sources whose Close ran in the last Close call
    closeRet,       \* error it returned: the set of sources whose error it is
    closeCalled,
    userItemMatrix, \* CollaborativeFilteringEngine.userItemMatrix
    itemUserMatrix, \* CollaborativeFilteringEngine.itemUserMatrix
    itemFeatures,   \* ContentBasedFilteringEngine.itemFeatures
    hybridOut,      \* the last hybrid GenerateRecommendations call and its result
    itemSimilarity, \* CollaborativeFilteringEngine.itemSimilarity (lazy cache)
    userProfiles,   \* ContentBasedFilteringEngine.userProfiles
    userItemHistory, \* ContentBasedFilteringEngine.userItemHistory
    now,            \* getCurrentTimestamp(), in days
    recOut,         \* the last recommend call of one engine and its result
    gpc,            \* per goroutine: the engine operation it runs and its position
    mu,             \* the three engines' sync.RWMutex
    lastRated       \* (user, item) -> rating of the last completed AddUserRating

recallVars == <<recallTypes, cpc, launchIdx, wpc, wres, executed, wg, errChan,
                doneChan, kpc, successCount, errorCount, retErr>>
mergeVars == <<heap, merged, mergeCalls>>
lifeVars == <<srcUnhealthy, srcCloseFails, healthBad, healthLog, healthRet,
              healthCalled, closeBad, closeLog, closeRet, closeCalled>>
engineVars == <<userItemMatrix, itemUserMatrix, itemFeatures, hybridOut>>
profileVars == <<itemSimilarity, userProfiles, userItemHistory, now, recOut>>
lockVars == <<gpc, mu, lastRated>>
vars == <<recallTypes, cpc, launchIdx, wpc, wres, executed, wg, errChan,
          doneChan, kpc, successCount, errorCount, results, retErr,
          heap, merged, mergeCalls,
          srcUnhealthy, srcCloseFails, healthBad, healthLog, healthRet,
          healthCalled, closeBad, closeLog, closeRet, closeCalled,
          userItemMatrix, itemUserMatrix, itemFeatures, hybridOut,
          itemSimilarity, userProfiles, userItemHistory, now, recOut,
          gpc, mu, lastRated>>

\* ------------------------------------------------------------ data sources
\* Item records a source can return: its own records of the items.
ItemRecordsOf(s) == {[ItemID |-> i, Metadata |-> OwnMeta(s, i)] : i \in ItemIDs}

\* What the DataSource calls of one strategy execution amount to: the primary
\* call fails (err), the user has preferences / behaviours there (hasData),
\* and the item records the source hands back.
Responses(s) ==
    [err : BOOLEAN, hasData : BOOLEAN, items : SeqsUpTo(ItemRecordsOf(s), MaxRecallItems)]

NoResult == [Items |-> <<>>, Score |-> 0, Source |-> "none"]
ErrOut == [state |-> "err", result |-> NoResult]
OkOut(r) == [state |-> "ok", result |-> r]
NoOut == [state |-> "none", result |-> NoResult]

recallPopularItems(resp) ==
    IF resp.err THEN ErrOut
    ELSE OkOut([Items |-> resp.items, Score |-> PopularScore, Source |-> "popular_items"])

recallSimilarUsersItems(resp) ==
    IF resp.err THEN ErrOut
    ELSE OkOut([Items |-> resp.items, Score |-> SimilarUsersScore, Source |-> "similar_users"])

recallRecentBehaviorItems(resp) ==
    IF resp.err THEN ErrOut
    ELSE IF ~resp.hasData
         THEN OkOut([Items |-> <<>>, Score |-> EmptyScore, Source |-> "recent_behavior"])
         ELSE OkOut([Items |-> resp.items, Score |-> RecentBehaviorScore,
                     Source |-> "recent_behavior"])

recallCategoryPreferenceItems(resp) ==
    IF resp.err THEN ErrOut
    ELSE IF ~resp.hasData
         THEN OkOut([Items |-> <<>>, Score |-> EmptyScore, Source |-> "category_preference"])
         ELSE OkOut([Items |-> resp.items, Score |-> CategoryPreferenceScore,
                     Source |-> "category_preference"])

\* a dispatch loop that keeps going and lets the last known type win
RECURSIVE SelectLastStrategy(_)
SelectLastStrategy(types) ==
    IF types = <<>> THEN "none"
    ELSE IF SelectLastStrategy(Tail(types)) # "none" THEN SelectLastStrategy(Tail(types))
    ELSE IF Head(types) \in KnownTypes THEN Head(types)
    ELSE "none"

\* executeRecall's loop over recallTypes: the strategy it dispatches to, or
\* "none" when the loop falls through to the final error.
RECURSIVE SelectStrategy(_)
SelectStrategy(types) ==
    IF types = <<>> THEN "none"
    ELSE IF Head(types) \in KnownTypes THEN Head(types)
    ELSE SelectStrategy(Tail(types))

RunStrategy(strategy, resp) ==
    CASE strategy = "popular" -> recallPopularItems(resp)
      [] strategy = "similar_users" -> recallSimilarUsersItems(resp)
      [] strategy = "recent_behavior" -> recallRecentBehaviorItems(resp)
      [] strategy = "category_preference" -> recallCategoryPreferenceItems(resp)

\* ----------------------------------------------------------------- MultiRecall
NewMultiRecall == [x \in {} |-> NoResult]

\* AddResult that re-makes the map on every call
AddResultClobber(res, source, result) ==
    [x \in {source} |-> result]

\* multi.go 46-51
AddResult(res, source, result) ==
    [x \in (DOMAIN res) \cup {source} |-> IF x = source THEN result ELSE res[x]]

\* an empty Go map
EmptyMap == [x \in {} |-> 0]

NoHybridOut == [called |-> FALSE, user |-> "", topN |-> 0, collab |-> <<>>,
                content |-> <<>>, recs |-> <<>>]

\* engine goroutines
Goroutines == {"g1", "g2"}
LockNames == {"collab", "content", "hybrid"}
Idle == [op |-> "idle", pc |-> "idle"]
FreeLock == [writer |-> "", pending |-> {}, readers |-> EmptyBag]
NoRecOut == [called |-> FALSE, op |-> "", user |-> "", topN |-> 0, recs |-> <<>>]

\* the engines as constructed, with no goroutine running
InitEngines ==
    /\ itemSimilarity = EmptyMap
    /\ userProfiles = EmptyMap
    /\ userItemHistory = EmptyMap
    /\ now = 1
    /\ recOut = NoRecOut
    /\ gpc = [g \in Goroutines |-> Idle]
    /\ mu = [l \in LockNames |-> FreeLock]
    /\ lastRated = EmptyMap

NoMerge == [state |-> "none", items |-> <<>>, input |-> NewMultiRecall]

EmptyChan == [buf |-> <<>>, closed |-> FALSE]

Init ==
    /\ recallTypes = <<>>
    /\ cpc = "idle"
    /\ launchIdx = 0
    /\ wpc = [s \in Sources |-> "idle"]
    /\ wres = [s \in Sources |-> NoOut]
    /\ executed = [s \in Sources |-> <<>>]
    /\ wg = 0
    /\ errChan = EmptyChan
    /\ doneChan = EmptyChan
    /\ kpc = "idle"
    /\ successCount = 0
    /\ errorCount = 0
    /\ results = NewMultiRecall
    /\ retErr = "pending"
    /\ heap = [r \in MapRefs |-> NoSources]
    /\ merged = NoMerge
    /\ mergeCalls = 0
    /\ healthBad = {}
    /\ healthLog = <<>>
    /\ srcUnhealthy = {}
    /\ healthRet = {}
    /\ closeBad = {}
    /\ closeLog = <<>>
    /\ srcCloseFails = {}
    /\ closeRet = {}
    /\ healthCalled = FALSE
    /\ closeCalled = FALSE
    /\ userItemMatrix = EmptyMap
    /\ itemUserMatrix = EmptyMap
    /\ itemFeatures = EmptyMap
    /\ hybridOut = NoHybridOut
    /\ InitEngines

\* ------------------------------------------------------------ ParallelRecall
\* multi.go 105-116: the call starts, a fresh MultiRecall and both channels.
\* m.sources holds every source, or none: the loop of line 119 then starts
\* past the last one.
CallParallelRecall ==
    /\ cpc = "idle"
    /\ \E types \in RecallTypeLists : recallTypes' = types
    /\ cpc' = "launch"
    /\ launchIdx' \in {1, NumSources + 1}
    /\ UNCHANGED <<wpc, wres, executed, wg, errChan, doneChan, kpc, successCount,
                   errorCount, results, retErr>>
    /\ UNCHANGED <<mergeVars, lifeVars, engineVars, profileVars, lockVars>>

\* multi.go 120-137: wg.Add(1); go func(...)
LaunchWorker ==
    /\ cpc = "launch"
    /\ launchIdx <= NumSources
    /\ wg' = wg + 1
    /\ wpc' = [wpc EXCEPT ![launchIdx] = "exec"]
    /\ launchIdx' = launchIdx + 1
    /\ UNCHANGED <<recallTypes, cpc, wres, executed, errChan, doneChan, kpc,
                   successCount, errorCount, results, retErr>>
    /\ UNCHANGED <<mergeVars, lifeVars, engineVars, profileVars, lockVars>>

\* multi.go 140-144: go func() { wg.Wait(); close(...); close(...) }()
LaunchCloser ==
    /\ cpc = "launch"
    /\ launchIdx > NumSources
    /\ kpc' = "wait"
    /\ cpc' = "recvDone"
    /\ UNCHANGED <<recallTypes, launchIdx, wpc, wres, executed, wg, errChan, doneChan,
                   successCount, errorCount, results, retErr>>
    /\ UNCHANGED <<mergeVars, lifeVars, engineVars, profileVars, lockVars>>

\* multi.go 125 and 172-195: executeRecall returns.  No strategy matches: the
\* error of line 194 without touching the source.
WorkerExecNoStrategy(s) ==
    /\ wpc[s] = "exec"
    /\ SelectStrategy(recallTypes) = "none"
    /\ wres' = [wres EXCEPT ![s] = ErrOut]
    /\ wpc' = [wpc EXCEPT ![s] = "sendErr"]
    /\ UNCHANGED <<recallTypes, cpc, launchIdx, executed, wg, errChan, doneChan, kpc,
                   successCount, errorCount, results, retErr>>
    /\ UNCHANGED <<mergeVars, lifeVars, engineVars, profileVars, lockVars>>

\* multi.go 125 and 176-185: the selected strategy runs against the source and
\* returns a result or an error.
WorkerExecReturn(s) ==
    /\ wpc[s] = "exec"
    /\ SelectStrategy(recallTypes) # "none"
    /\ \E out \in {RunStrategy(SelectStrategy(recallTypes), resp) : resp \in Responses(s)} :
          /\ wres' = [wres EXCEPT ![s] = out]
          /\ wpc' = [wpc EXCEPT ![s] = IF out.state = "err" THEN "sendErr" ELSE "add"]
    /\ executed' = [executed EXCEPT ![s] = Append(@, SelectStrategy(recallTypes))]
    /\ UNCHANGED <<recallTypes, cpc, launchIdx, wg, errChan, doneChan, kpc,
                   successCount, errorCount, results, retErr>>
    /\ UNCHANGED <<mergeVars, lifeVars, engineVars, profileVars, lockVars>>

\* multi.go 125: the source call never returns (ctx carries no deadline and
\* no select guards the call): the worker stays inside executeRecall.
WorkerExecHang(s) ==
    /\ wpc[s] = "exec"
    /\ SelectStrategy(recallTypes) # "none"
    /\ wpc' = [wpc EXCEPT ![s] = "hung"]
    /\ executed' = [executed EXCEPT ![s] = Append(@, SelectStrategy(recallTypes))]
    /\ UNCHANGED <<recallTypes, cpc, launchIdx, wres, wg, errChan, doneChan, kpc,
                   successCount, errorCount, results, retErr>>
    /\ UNCHANGED <<mergeVars, lifeVars, engineVars, profileVars, lockVars>>

\* multi.go 126-129 with the worker leaving without its deferred wg.Done()
WorkerSendErrNoDone(s) ==
    /\ wpc[s] = "sendErr"
    /\ ~errChan.closed
    /\ Len(errChan.buf) < NumSources
    /\ errChan' = [errChan EXCEPT !.buf = Append(@, s)]
    /\ wpc' = [wpc EXCEPT ![s] = "finished"]
    /\ UNCHANGED <<recallTypes, cpc, launchIdx, wres, executed, wg, doneChan, kpc,
                   successCount, errorCount, results, retErr>>
    /\ UNCHANGED <<mergeVars, lifeVars, engineVars, profileVars, lockVars>>

\* multi.go 126-129: errChan <- err (buffered, capacity len(m.sources))
WorkerSendErr(s) ==
    /\ wpc[s] = "sendErr"
    /\ ~errChan.closed
    /\ Len(errChan.buf) < NumSources
    /\ errChan' = [errChan EXCEPT !.buf = Append(@, s)]
    /\ wpc' = [wpc EXCEPT ![s] = "wgDone"]
    /\ UNCHANGED <<recallTypes, cpc, launchIdx, wres, executed, wg, doneChan, kpc,
                   successCount, errorCount, results, retErr>>
    /\ UNCHANGED <<mergeVars, lifeVars, engineVars, profileVars, lockVars>>

\* multi.go 132-134: multiRecall.AddResult(src.GetName(), *result)
WorkerAddResult(s) ==
    /\ wpc[s] = "add"
    /\ results' = AddResult(results, GetName(s), wres[s].result)
    /\ wpc' = [wpc EXCEPT ![s] = "sendDone"]
    /\ UNCHANGED <<recallTypes, cpc, launchIdx, wres, executed, wg, errChan, doneChan,
                   kpc, successCount, errorCount, retErr>>
    /\ UNCHANGED <<mergeVars, lifeVars, engineVars, profileVars, lockVars>>

\* multi.go 135: doneChan <- true
WorkerSendDone(s) ==
    /\ wpc[s] = "sendDone"
    /\ ~doneChan.closed
    /\ Len(doneChan.buf) < NumSources
    /\ doneChan' = [doneChan EXCEPT !.buf = Append(@, TRUE)]
    /\ wpc' = [wpc EXCEPT ![s] = "wgDone"]
    /\ UNCHANGED <<recallTypes, cpc, launchIdx, wres, executed, wg, errChan, kpc,
                   successCount, errorCount, results, retErr>>
    /\ UNCHANGED <<mergeVars, lifeVars, engineVars, profileVars, lockVars>>

\* multi.go 123: defer wg.Done()
WorkerDone(s) ==
    /\ wpc[s] = "wgDone"
    /\ wg' = wg - 1
    /\ wpc' = [wpc EXCEPT ![s] = "finished"]
    /\ UNCHANGED <<recallTypes, cpc, launchIdx, wres, executed, errChan, doneChan, kpc,
                   successCount, errorCount, results, retErr>>
    /\ UNCHANGED <<mergeVars, lifeVars, engineVars, profileVars, lockVars>>

\* the closing goroutine without its wg.Wait()
CloserCloseErrNoWait ==
    /\ kpc = "wait"
    /\ errChan' = [errChan EXCEPT !.closed = TRUE]
    /\ kpc' = "closeDone"
    /\ UNCHANGED <<recallTypes, cpc, launchIdx, wpc, wres, executed, wg, doneChan,
                   successCount, errorCount, results, retErr>>
    /\ UNCHANGED <<mergeVars, lifeVars, engineVars, profileVars, lockVars>>

\* multi.go 141-142: wg.Wait() returns, close(errChan)
CloserCloseErr ==
    /\ kpc = "wait"
    /\ wg = 0
    /\ errChan' = [errChan EXCEPT !.closed = TRUE]
    /\ kpc' = "closeDone"
    /\ UNCHANGED <<recallTypes, cpc, launchIdx, wpc, wres, executed, wg, doneChan,
                   successCount, errorCount, results, retErr>>
    /\ UNCHANGED <<mergeVars, lifeVars, engineVars, profileVars, lockVars>>

\* multi.go 143: close(doneChan)
CloserCloseDone ==
    /\ kpc = "closeDone"
    /\ doneChan' = [doneChan EXCEPT !.closed = TRUE]
    /\ kpc' = "finished"
    /\ UNCHANGED <<recallTypes, cpc, launchIdx, wpc, wres, executed, wg, errChan,
                   successCount, errorCount, results, retErr>>
    /\ UNCHANGED <<mergeVars, lifeVars, engineVars, profileVars, lockVars>>

\* multi.go 150-154: one iteration of `for done := range doneChan`
CoordRecvDone ==
    /\ cpc = "recvDone"
    /\ doneChan.buf # <<>>
    /\ successCount' = IF Head(doneChan.buf) THEN successCount + 1 ELSE successCount
    /\ doneChan' = [doneChan EXCEPT !.buf = Tail(@)]
    /\ UNCHANGED <<recallTypes, cpc, launchIdx, wpc, wres, executed, wg, errChan, kpc,
                   errorCount, results, retErr>>
    /\ UNCHANGED <<mergeVars, lifeVars, engineVars, profileVars, lockVars>>

\* multi.go 150: the range loop ends once doneChan is closed and drained
CoordDoneClosed ==
    /\ cpc = "recvDone"
    /\ doneChan.buf = <<>>
    /\ doneChan.closed
    /\ cpc' = "recvErr"
    /\ UNCHANGED <<recallTypes, launchIdx, wpc, wres, executed, wg, errChan, doneChan,
                   kpc, successCount, errorCount, results, retErr>>
    /\ UNCHANGED <<mergeVars, lifeVars, engineVars, profileVars, lockVars>>

\* multi.go 156-160: one iteration of `for err := range errChan`
CoordRecvErr ==
    /\ cpc = "recvErr"
    /\ errChan.buf # <<>>
    /\ errorCount' = errorCount + 1
    /\ errChan' = [errChan EXCEPT !.buf = Tail(@)]
    /\ UNCHANGED <<recallTypes, cpc, launchIdx, wpc, wres, executed, wg, doneChan, kpc,
                   successCount, results, retErr>>
    /\ UNCHANGED <<mergeVars, lifeVars, engineVars, profileVars, lockVars>>

\* the error ParallelRecall returns, from the two counters (multi.go 168)
ParallelRecallError(succ, errs) == "nil"

\* multi.go 156-168: errChan closed and drained, the log line, return
CoordReturn ==
    /\ cpc = "recvErr"
    /\ errChan.buf = <<>>
    /\ errChan.closed
    /\ cpc' = "returned"
    /\ retErr' = ParallelRecallError(successCount, errorCount)
    /\ UNCHANGED <<recallTypes, launchIdx, wpc, wres, executed, wg, errChan, doneChan,
                   kpc, successCount, errorCount, results>>
    /\ UNCHANGED <<mergeVars, lifeVars, engineVars, profileVars, lockVars>>

ParallelRecallStep ==
    \/ CallParallelRecall
    \/ LaunchWorker
    \/ LaunchCloser
    \/ \E s \in Sources : WorkerExecNoStrategy(s)
    \/ \E s \in Sources : WorkerExecReturn(s)
    \/ \E s \in Sources : WorkerExecHang(s)
    \/ \E s \in Sources : WorkerSendErr(s)
    \/ \E s \in Sources : WorkerAddResult(s)
    \/ \E s \in Sources : WorkerSendDone(s)
    \/ \E s \in Sources : WorkerDone(s)
    \/ CloserCloseErr
    \/ CloserCloseDone
    \/ CoordRecvDone
    \/ CoordDoneClosed
    \/ CoordRecvErr
    \/ CoordReturn

\* ---------------------------------------------------------------- MergeResults
Perms(S) ==
    {f \in [1..Cardinality(S) -> S] : \A x \in S : \E k \in DOMAIN f : f[k] = x}

\* value of m["sources"] for the map behind a reference
SourcesEntry(hp, ref) ==
    IF ref = NilMeta THEN NoSources
    ELSE IF ref[2] = "fresh" THEN <<ref[1]>>
    ELSE hp[ref]

\* multi.go 73-91: one iteration of the inner loop.  st carries itemMap, the
\* metadata heap and whether the type assertion of line 83 has panicked.
MergeItem(st, source, score, item) ==
    IF st.panic THEN st
    ELSE IF item.ItemID \in DOMAIN st.itemMap
    THEN \* 74-83: the loop's copy `item` is updated, itemMap is not written
         LET cur == SourcesEntry(st.heap, item.Metadata) IN
         IF cur = NoSources
         THEN [st EXCEPT !.panic = TRUE]
         ELSE [st EXCEPT !.heap[item.Metadata] = Append(cur, source)]
    ELSE \* 85-90
         LET meta == IF item.Metadata = NilMeta THEN FreshMeta(source)
                     ELSE item.Metadata
             entry == [ItemID |-> item.ItemID, Popularity |-> score, Metadata |-> meta]
         IN [itemMap |-> [k \in (DOMAIN st.itemMap) \cup {item.ItemID} |->
                             IF k = item.ItemID THEN entry ELSE st.itemMap[k]],
             heap |-> IF item.Metadata = NilMeta THEN st.heap
                      ELSE [st.heap EXCEPT ![meta] = <<source>>],
             panic |-> FALSE]

RECURSIVE MergeItems(_, _, _, _)
MergeItems(st, source, score, items) ==
    IF items = <<>> THEN st
    ELSE MergeItems(MergeItem(st, source, score, Head(items)), source, score, Tail(items))

\* multi.go 72: the outer loop, over m.results in the order `order`
RECURSIVE MergeSources(_, _, _)
MergeSources(st, res, order) ==
    IF order = <<>> THEN st
    ELSE MergeSources(MergeItems(st, Head(order), res[Head(order)].Score,
                                 res[Head(order)].Items),
                      res, Tail(order))

\* multi.go 96-101: the returned slice, itemMap in the order `out`; the
\* provenance is read through the item's metadata map
MergedSlice(st, out) ==
    [k \in 1..Len(out) |->
        [ItemID |-> st.itemMap[out[k]].ItemID,
         Popularity |-> st.itemMap[out[k]].Popularity,
         Sources |-> SourcesEntry(st.heap, st.itemMap[out[k]].Metadata)]]

\* MultiRecall.MergeResults, called by whoever holds the MultiRecall.  Go
\* iterates both maps in an unspecified order.
CallMergeResults ==
    /\ cpc \in {"returned", "direct"}
    /\ mergeCalls < MaxMerges
    /\ mergeCalls' = mergeCalls + 1
    /\ \E order \in Perms(DOMAIN results) :
          LET st == MergeSources([itemMap |-> [k \in {} |-> 0], heap |-> heap,
                                  panic |-> FALSE], results, order) IN
          /\ heap' = st.heap
          /\ IF st.panic
             THEN merged' = [state |-> "panic", items |-> <<>>, input |-> results]
             ELSE \E out \in Perms(DOMAIN st.itemMap) :
                     merged' = [state |-> "ok", items |-> MergedSlice(st, out),
                                input |-> results]
    /\ UNCHANGED <<recallVars, results, lifeVars, engineVars, profileVars, lockVars>>

\* ------------------------------------------- a MultiRecall filled by a caller
\* NewMultiRecall / AddResult / MergeResults are exported: a caller may store
\* any RecallResult under a source name.  Item records carry the source's own
\* metadata map or none; scores are those of two of the strategies.
DirectItemRecords(s) ==
    ItemRecordsOf(s) \cup {[ItemID |-> i, Metadata |-> NilMeta] : i \in ItemIDs}

DirectScores == {RecentBehaviorScore, PopularScore}

RECURSIVE PoolSize(_, _)
PoolSize(res, names) ==
    IF names = {} THEN 0
    ELSE LET n == CHOOSE x \in names : TRUE
         IN Len(res[n].Items) + PoolSize(res, names \ {n})

\* multi.go 46-51, called from outside ParallelRecall: one result per source
\* name, all stored before the merge
CallerAddResult(s) ==
    /\ cpc = "direct"
    /\ mergeCalls = 0
    /\ GetName(s) \notin DOMAIN results
    /\ \E items \in SeqsUpTo(DirectItemRecords(s), MaxPoolItems), score \in DirectScores :
          /\ PoolSize(results, (DOMAIN results) \ {GetName(s)}) + Len(items) <= MaxPoolItems
          /\ results' = AddResult(results, GetName(s),
                                  [Items |-> items, Score |-> score, Source |-> "direct"])
    /\ UNCHANGED <<recallVars, mergeVars, lifeVars, engineVars, profileVars, lockVars>>

\* ------------------------------------------------------- HealthCheck / Close
\* multi.go 392-399: the loop from source i on; bad = the unhealthy sources.
\* ret is the set of sources the returned error names ({} is nil).
RECURSIVE HealthCheckFrom(_, _, _)
HealthCheckFrom(i, bad, log) ==
    IF i > NumSources THEN [log |-> log, ret |-> {}]
    ELSE IF i \in bad THEN [log |-> Append(log, i), ret |-> {i}]
    ELSE HealthCheckFrom(i + 1, bad, Append(log, i))

\* a Close that returns at the first failing source, as HealthCheck does
RECURSIVE CloseFromStopAtFirst(_, _, _, _)
CloseFromStopAtFirst(i, bad, log, lastErr) ==
    IF i > NumSources THEN [log |-> log, ret |-> lastErr]
    ELSE IF i \in bad THEN [log |-> Append(log, i), ret |-> {i}]
    ELSE CloseFromStopAtFirst(i + 1, bad, Append(log, i), lastErr)

\* multi.go 402-411: the loop from source i on; bad = the sources whose Close
\* fails; lastErr as the set of sources whose error it is
RECURSIVE CloseFrom(_, _, _, _)
CloseFrom(i, bad, log, lastErr) ==
    IF i > NumSources THEN [log |-> log, ret |-> lastErr]
    ELSE CloseFrom(i + 1, bad, Append(log, i), IF i \in bad THEN {i} ELSE lastErr)

\* a source's condition changes under the MultiDataSource (the environment)
SourceHealthChanges(s) ==
    /\ srcUnhealthy' = IF s \in srcUnhealthy THEN srcUnhealthy \ {s}
                       ELSE srcUnhealthy \cup {s}
    /\ UNCHANGED <<engineVars, profileVars, lockVars, recallVars, results, mergeVars, srcCloseFails, healthBad, healthLog,
                   healthRet, healthCalled, closeBad, closeLog, closeRet, closeCalled>>

SourceCloseChanges(s) ==
    /\ srcCloseFails' = IF s \in srcCloseFails THEN srcCloseFails \ {s}
                        ELSE srcCloseFails \cup {s}
    /\ UNCHANGED <<engineVars, profileVars, lockVars, recallVars, results, mergeVars, srcUnhealthy, healthBad, healthLog,
                   healthRet, healthCalled, closeBad, closeLog, closeRet, closeCalled>>

\* MultiDataSource.HealthCheck
CallHealthCheck ==
    /\ LET r == HealthCheckFrom(1, srcUnhealthy, <<>>) IN
          /\ healthLog' = r.log
          /\ healthRet' = r.ret
    /\ healthBad' = srcUnhealthy
    /\ healthCalled' = TRUE
    /\ UNCHANGED <<engineVars, profileVars, lockVars, recallVars, results, mergeVars, srcUnhealthy, srcCloseFails,
                   closeBad, closeLog, closeRet, closeCalled>>

\* MultiDataSource.Close
CallClose ==
    /\ LET r == CloseFrom(1, srcCloseFails, <<>>, {}) IN
          /\ closeLog' = r.log
          /\ closeRet' = r.ret
    /\ closeBad' = srcCloseFails
    /\ closeCalled' = TRUE
    /\ UNCHANGED <<engineVars, profileVars, lockVars, recallVars, results, mergeVars, srcUnhealthy, srcCloseFails,
                   healthBad, healthLog, healthRet, healthCalled>>

LifecycleStep ==
    \/ \E s \in Sources : SourceHealthChanges(s)
    \/ \E s \in Sources : SourceCloseChanges(s)
    \/ CallHealthCheck
    \/ CallClose

\* ------------------------------------------------------ recommendation engines
\* Go map read with a default, and map write
Range(f) == {f[x] : x \in DOMAIN f}
MapGet(m, k, d) == IF k \in DOMAIN m THEN m[k] ELSE d
MapPut(m, k, v) == [x \in DOMAIN m \cup {k} |-> IF x = k THEN v ELSE m[x]]

MaxOf(S) == CHOOSE x \in S : \A y \in S : y <= x

\* number of (user, item) ratings held by the collaborative engine
RatingTotal(uim) ==
    Cardinality({p \in Users \X CatalogItems :
                    p[1] \in DOMAIN uim /\ p[2] \in DOMAIN uim[p[1]]})

\* the (user, item) pairs rated while the engines are exercised on their own
EngineRatingCells == ({"u1"} \X {"i1"}) \cup ({"u2"} \X CatalogItems)

\* collaborativefiltering.go 55-76 with the item's row made (66-68) and the
\* rating not stored in it (69)
AddUserRatingRowOnly(u, i, r) ==
    /\ cpc \in {"blend", "engine"}
    /\ ~hybridOut.called /\ ~recOut.called
    /\ IF cpc = "blend" THEN RatingTotal(userItemMatrix) < MaxRatings
       ELSE <<u, i>> \in EngineRatingCells
    /\ userItemMatrix' =
          MapPut(userItemMatrix, u, MapPut(MapGet(userItemMatrix, u, EmptyMap), i, r))
    /\ itemUserMatrix' =
          MapPut(itemUserMatrix, i, MapGet(itemUserMatrix, i, EmptyMap))
    /\ UNCHANGED <<itemFeatures, hybridOut>>
    /\ UNCHANGED <<recallVars, results, mergeVars, lifeVars, profileVars, lockVars>>

\* collaborativefiltering.go 55-76: both matrices are updated
AddUserRating(u, i, r) ==
    /\ cpc \in {"blend", "engine"}
    /\ ~hybridOut.called /\ ~recOut.called
    /\ IF cpc = "blend" THEN RatingTotal(userItemMatrix) < MaxRatings
       ELSE <<u, i>> \in EngineRatingCells
    /\ userItemMatrix' =
          MapPut(userItemMatrix, u, MapPut(MapGet(userItemMatrix, u, EmptyMap), i, r))
    /\ itemUserMatrix' =
          MapPut(itemUserMatrix, i, MapPut(MapGet(itemUserMatrix, i, EmptyMap), u, r))
    /\ UNCHANGED <<itemFeatures, hybridOut>>
    /\ UNCHANGED <<recallVars, results, mergeVars, lifeVars, profileVars, lockVars>>

\* content engine AddItemFeatures: the item's record replaces any earlier one
AddItemFeatures(i, category, keywords, features) ==
    /\ cpc \in {"blend", "engine", "matrix", "profile"}
    /\ ~hybridOut.called /\ ~recOut.called
    /\ itemFeatures' = MapPut(itemFeatures, i,
                              [ItemID |-> i, Category |-> category,
                               Keywords |-> keywords, Features |-> features])
    /\ UNCHANGED <<userItemMatrix, itemUserMatrix, hybridOut>>
    /\ UNCHANGED <<recallVars, results, mergeVars, lifeVars, profileVars, lockVars>>

\* Candidate lists an engine can hand back: Recommendation{ItemID, Score}
\* records over the given items, no item twice (both engines build the list
\* from a map keyed by item), sorted by descending score with ties in any
\* order, cut to n.
CandidateLists(items, scores, n) ==
    LET recs == [ItemID : items, Score : scores]
        len == IF n < Cardinality(items) THEN n ELSE Cardinality(items)
    IN {l \in SeqsUpTo(recs, len) :
           /\ \A a, b \in DOMAIN l : a # b => l[a].ItemID # l[b].ItemID
           /\ \A a \in DOMAIN l : a + 1 \in DOMAIN l => l[a].Score >= l[a + 1].Score}

\* scores the engines give: weighted rating sums, and similarities >= 0.3
CollabScores == {Fx(60), Fx(250)}
ContentScores == {Fx(40), Fx(90)}

\* collaborativefiltering.go 123-174: nothing for an unknown user; otherwise
\* items rated by other users and not by this one
UserBasedRecommend(uim, u, n) ==
    IF u \notin DOMAIN uim THEN {<<>>}
    ELSE LET others == UNION {DOMAIN uim[v] : v \in DOMAIN uim \ {u}}
         IN CandidateLists(others \ DOMAIN uim[u], CollabScores, n)

\* content engine GenerateRecommendations: nothing without a profile;
\* otherwise registered items whose similarity reaches the threshold
contentBased_GenerateRecommendations(feats, u, n) ==
    CandidateLists(DOMAIN feats, ContentScores, n)

\* ------------------------------------------- collaborative engine, computed
\* CollaborativeFilteringConfig defaults
SimilarityThreshold == Fx(10)
MaxNeighbors == 50
MinCommonItems == 2

\* math.Sqrt on the integers the sums take: the floor of the root
RECURSIVE SqrtBetween(_, _, _)
SqrtBetween(x, lo, hi) ==
    IF lo >= hi THEN lo
    ELSE LET mid == (lo + hi + 1) \div 2
         IN IF mid * mid <= x THEN SqrtBetween(x, mid, hi) ELSE SqrtBetween(x, lo, mid - 1)

RECURSIVE SqrtCeiling(_, _)
SqrtCeiling(x, k) == IF k * k >= x THEN k ELSE SqrtCeiling(x, 2 * k)

Sqrt(x) == SqrtBetween(x, 0, SqrtCeiling(x, 1))

\* sum of f over a finite set
RECURSIVE SumOver(_, _)
SumOver(S, f) ==
    IF S = {} THEN 0
    ELSE LET x == CHOOSE y \in S : TRUE IN f[x] + SumOver(S \ {x}, f)

\* x / y for a fixed-point quotient whose sign is kept (Go float division)
SignedDiv(x, y) == IF x < 0 THEN 0 - ((0 - x) \div y) ELSE x \div y

\* collaborativefiltering.go 234-268 with the covariance divided by the first
\* user's variance alone
pearsonCorrelationOwnVariance(ratings1, ratings2, commonItems) ==
    IF commonItems = {} THEN 0
    ELSE LET n == Cardinality(commonItems)
             sum1 == SumOver(commonItems, ratings1)
             sum2 == SumOver(commonItems, ratings2)
             diff1 == [i \in commonItems |-> n * ratings1[i] - sum1]
             diff2 == [i \in commonItems |-> n * ratings2[i] - sum2]
             numerator == SumOver(commonItems, [i \in commonItems |-> diff1[i] * diff2[i]])
             denominator1 == SumOver(commonItems, [i \in commonItems |-> diff1[i] * diff1[i]])
             denominator2 == SumOver(commonItems, [i \in commonItems |-> diff2[i] * diff2[i]])
         IN IF denominator1 = 0 \/ denominator2 = 0 THEN 0
            ELSE LET correlation == SignedDiv(numerator * One, denominator1)
                 IN SignedDiv(correlation * n, MaxNeighbors)

\* collaborativefiltering.go 234-268: means over the common items, the
\* correlation, then the weight len(commonItems)/MaxNeighbors.  Differences
\* from the mean are carried multiplied by len(commonItems) so they stay whole.
pearsonCorrelation(ratings1, ratings2, commonItems) ==
    IF commonItems = {} THEN 0
    ELSE LET n == Cardinality(commonItems)
             sum1 == SumOver(commonItems, ratings1)
             sum2 == SumOver(commonItems, ratings2)
             diff1 == [i \in commonItems |-> n * ratings1[i] - sum1]
             diff2 == [i \in commonItems |-> n * ratings2[i] - sum2]
             numerator == SumOver(commonItems, [i \in commonItems |-> diff1[i] * diff2[i]])
             denominator1 == SumOver(commonItems, [i \in commonItems |-> diff1[i] * diff1[i]])
             denominator2 == SumOver(commonItems, [i \in commonItems |-> diff2[i] * diff2[i]])
         IN IF denominator1 = 0 \/ denominator2 = 0 THEN 0
            ELSE LET correlation == SignedDiv(numerator * One, Sqrt(denominator1 * denominator2))
                 IN SignedDiv(correlation * n, MaxNeighbors)

\* collaborativefiltering.go 79-104
CalculateUserSimilarity(uim, userID1, userID2) ==
    IF userID1 \notin DOMAIN uim \/ userID2 \notin DOMAIN uim THEN 0
    ELSE LET commonItems == DOMAIN uim[userID1] \cap DOMAIN uim[userID2]
         IN IF Cardinality(commonItems) < MinCommonItems THEN 0
            ELSE pearsonCorrelation(uim[userID1], uim[userID2], commonItems)

\* collaborativefiltering.go 271-300
cosineSimilarity(ratings1, ratings2) ==
    LET commonUsers == DOMAIN ratings1 \cap DOMAIN ratings2
        dotProduct == SumOver(commonUsers, [u \in commonUsers |-> ratings1[u] * ratings2[u]])
        norm1 == SumOver(commonUsers, [u \in commonUsers |-> ratings1[u] * ratings1[u]])
        norm2 == SumOver(commonUsers, [u \in commonUsers |-> ratings2[u] * ratings2[u]])
    IN IF commonUsers = {} THEN 0
       ELSE IF norm1 = 0 \/ norm2 = 0 THEN 0
       ELSE SignedDiv(dotProduct * One, Sqrt(norm1 * norm2))

\* collaborativefiltering.go 107-120
CalculateItemSimilarity(ium, itemID1, itemID2) ==
    IF itemID1 \notin DOMAIN ium \/ itemID2 \notin DOMAIN ium THEN 0
    ELSE cosineSimilarity(ium[itemID1], ium[itemID2])

\* sort.Slice by descending Score: any arrangement in that order (the sort is
\* not stable)
SortedByScore(recs) ==
    {[k \in 1..Len(recs) |-> recs[p[k]]] : p \in
        {q \in Perms(1..Len(recs)) :
            \A k \in 1..(Len(recs) - 1) : recs[q[k]].Score >= recs[q[k + 1]].Score}}

FirstN(s, n) == IF Len(s) > n THEN SubSeq(s, 1, n) ELSE s

\* collaborativefiltering.go 303-331 / 334-362: the candidates reaching the
\* threshold, sorted by similarity and cut to MaxNeighbors; which of several
\* equally similar candidates survive the cut is not determined
TopNeighbors(cands, sim) ==
    LET keep == IF Cardinality(cands) > MaxNeighbors THEN MaxNeighbors
                ELSE Cardinality(cands)
    IN {T \in SUBSET cands :
           /\ Cardinality(T) = keep
           /\ \A t \in T, x \in cands \ T : sim[t] >= sim[x]}

\* collaborativefiltering.go 303-331 with every other user kept as a neighbour
findSimilarUsersNoThreshold(uim, userID) ==
    LET sim == [v \in DOMAIN uim |-> CalculateUserSimilarity(uim, userID, v)]
    IN TopNeighbors(DOMAIN uim \ {userID}, sim)

findSimilarUsers(uim, userID) ==
    LET sim == [v \in DOMAIN uim |-> CalculateUserSimilarity(uim, userID, v)]
    IN TopNeighbors({v \in DOMAIN uim \ {userID} : sim[v] >= SimilarityThreshold}, sim)

findSimilarItems(ium, itemID) ==
    LET sim == [j \in DOMAIN ium |-> CalculateItemSimilarity(ium, itemID, j)]
    IN TopNeighbors({j \in DOMAIN ium \ {itemID} : sim[j] >= SimilarityThreshold}, sim)

\* the recommendations map turned into a slice (map order), sorted by
\* descending score (not stable) and cut to topN
RankedLists(scores, topN) ==
    UNION {{FirstN(sorted, topN) :
               sorted \in SortedByScore([k \in 1..Len(order) |->
                              [ItemID |-> order[k], Score |-> scores[order[k]]]])} :
           order \in Perms(DOMAIN scores)}

\* collaborativefiltering.go 123-174
UserBasedRecommendLists(uim, userID, topN) ==
    IF userID \notin DOMAIN uim THEN {<<>>}
    ELSE LET userRatings == uim[userID]
         IN UNION {
              LET sim == [v \in similarUsers |-> CalculateUserSimilarity(uim, userID, v)]
                  items == UNION {DOMAIN uim[v] : v \in similarUsers} \ DOMAIN userRatings
                  scores == [i \in items |->
                               SumOver({v \in similarUsers : i \in DOMAIN uim[v]},
                                       [v \in similarUsers |->
                                          IF i \in DOMAIN uim[v] THEN sim[v] * uim[v][i] ELSE 0])]
              IN RankedLists(scores, topN) :
              similarUsers \in findSimilarUsers(uim, userID)}

\* collaborativefiltering.go 365-380
buildItemSimilarityMatrix(ium) ==
    [i1 \in DOMAIN ium |->
        [i2 \in DOMAIN ium \ {i1} |-> CalculateItemSimilarity(ium, i1, i2)]]

\* collaborativefiltering.go 191-230: for each item the user rated, its similar
\* items the user has not rated collect similarity * the user's rating
RECURSIVE ItemBasedScores(_, _, _, _)
ItemBasedScores(ium, userRatings, todo, acc) ==
    IF todo = {} THEN {acc}
    ELSE LET userItemID == CHOOSE i \in todo : TRUE
         IN UNION {
              LET add == {j \in similarItems : j \notin DOMAIN userRatings}
                  next == [j \in DOMAIN acc \cup add |->
                             MapGet(acc, j, 0)
                             + (IF j \in add
                                THEN CalculateItemSimilarity(ium, userItemID, j)
                                     * userRatings[userItemID]
                                ELSE 0)]
              IN ItemBasedScores(ium, userRatings, todo \ {userItemID}, next) :
              similarItems \in findSimilarItems(ium, userItemID)}

\* collaborativefiltering.go 177-231, the returned list
ItemBasedRecommendLists(uim, ium, userID, topN) ==
    IF userID \notin DOMAIN uim THEN {<<>>}
    ELSE UNION {RankedLists(scores, topN) :
                   scores \in ItemBasedScores(ium, uim[userID], DOMAIN uim[userID], EmptyMap)}

\* a cache built before the user is looked up
ItemBasedRecommendCacheEager(uim, ium, cache, userID) ==
    IF Cardinality(DOMAIN cache) = 0 THEN buildItemSimilarityMatrix(ium) ELSE cache

\* collaborativefiltering.go 181-189, the cache after the call
ItemBasedRecommendCache(uim, ium, cache, userID) ==
    IF userID \notin DOMAIN uim THEN cache
    ELSE IF Cardinality(DOMAIN cache) = 0 THEN buildItemSimilarityMatrix(ium)
    ELSE cache

\* ------------------------------------------------ content engine, computed
\* ContentBasedFilteringConfig defaults, in percent
LearningRate == 1
DecayFactor == 95
ContentSimilarityThreshold == Fx(30)

FeatureNames == {"f"}
KeywordNames == {"k"}

\* math.Pow(DecayFactor, days) applied to a weight
RECURSIVE Decayed(_, _)
Decayed(weight, days) ==
    IF days <= 0 THEN weight ELSE Decayed(SignedDiv(weight * DecayFactor, 100), days - 1)

\* part_003 192-209 with the preferences left undecayed
applyFeatureDecayVectorOnly(profile, t) ==
    LET timeDiff == t - profile.UpdateTime
    IN IF timeDiff > 0
       THEN [profile EXCEPT
               !.FeatureVector = [f \in DOMAIN @ |-> Decayed(@[f], timeDiff)]]
       ELSE profile

\* part_003 192-209: nothing happens when no time has passed
applyFeatureDecay(profile, t) ==
    LET timeDiff == t - profile.UpdateTime
    IN IF timeDiff > 0
       THEN [profile EXCEPT
               !.FeatureVector = [f \in DOMAIN @ |-> Decayed(@[f], timeDiff)],
               !.Preferences = [p \in DOMAIN @ |-> Decayed(@[p], timeDiff)]]
       ELSE profile

\* the keywords of an item as a bag: a keyword listed twice counts twice
RECURSIVE KeywordCount(_, _)
KeywordCount(keywords, k) ==
    IF keywords = <<>> THEN 0
    ELSE (IF Head(keywords) = k THEN 1 ELSE 0) + KeywordCount(Tail(keywords), k)

\* part_003 151-189
updateUserProfile(profiles, userID, item, rating, t) ==
    LET profile == IF userID \in DOMAIN profiles THEN profiles[userID]
                   ELSE [UserID |-> userID, FeatureVector |-> EmptyMap,
                         Preferences |-> EmptyMap, UpdateTime |-> 0]
        decayed == applyFeatureDecay(profile, t)
        vector == [f \in DOMAIN decayed.FeatureVector \cup DOMAIN item.Features |->
                     MapGet(decayed.FeatureVector, f, 0)
                     + (IF f \in DOMAIN item.Features
                        THEN SignedDiv(LearningRate * rating * item.Features[f] * One, 100)
                        ELSE 0)]
        step == SignedDiv(LearningRate * rating * One, 100)
        keys == DOMAIN decayed.Preferences \cup Range(item.Keywords) \cup {item.Category}
        prefs == [p \in keys |->
                     MapGet(decayed.Preferences, p, 0)
                     + KeywordCount(item.Keywords, p) * step
                     + (IF p = item.Category THEN step ELSE 0)]
    IN MapPut(profiles, userID,
              [UserID |-> userID, FeatureVector |-> vector, Preferences |-> prefs,
               UpdateTime |-> t])

\* part_003 273-294.  The cosine does not depend on the scale of the profile
\* vector, whose weights are carried in hundredths here to keep the squares
\* small.
calculateFeatureSimilarity(userFeatures, features) ==
    LET common == DOMAIN userFeatures \cap DOMAIN features
        user == [f \in DOMAIN userFeatures |-> SignedDiv(userFeatures[f] * 100, One)]
        dotProduct == SumOver(common, [f \in common |-> user[f] * features[f]])
        normUser == SumOver(DOMAIN user, [f \in DOMAIN user |-> user[f] * user[f]])
        normItem == SumOver(DOMAIN features,
                            [f \in DOMAIN features |-> features[f] * features[f]])
    IN IF normUser = 0 \/ normItem = 0 THEN 0
       ELSE SignedDiv(dotProduct * One, Sqrt(normUser) * Sqrt(normItem))

\* part_003 297-318
calculateKeywordSimilarity(userPreferences, keywords) ==
    LET matched == {k \in DOMAIN keywords : keywords[k] \in DOMAIN userPreferences}
    IN IF Len(keywords) = 0 \/ matched = {} THEN 0
       ELSE SignedDiv(SumOver(matched, [k \in matched |-> userPreferences[keywords[k]]]),
                      Len(keywords))

\* part_003 321-326
calculateCategorySimilarity(userPreferences, category) ==
    MapGet(userPreferences, category, 0)

\* part_003 256-270
calculateSimilarity(profile, item) ==
    SignedDiv(50 * calculateFeatureSimilarity(profile.FeatureVector, item.Features)
              + 30 * calculateKeywordSimilarity(profile.Preferences, item.Keywords)
              + 20 * calculateCategorySimilarity(profile.Preferences, item.Category), 100)

\* part_003 212-253
ContentRecommendLists(profiles, feats, history, userID, topN) ==
    IF userID \notin DOMAIN profiles THEN {<<>>}
    ELSE LET userHistory == DOMAIN MapGet(history, userID, EmptyMap)
             similarity == [i \in DOMAIN feats |-> calculateSimilarity(profiles[userID], feats[i])]
             items == {i \in DOMAIN feats \ userHistory :
                          similarity[i] >= ContentSimilarityThreshold}
         IN RankedLists([i \in items |-> similarity[i]], topN)

\* hybridfiltering.go 109-143
RECURSIVE mergeCollaborative(_, _)
mergeCollaborative(m, recs) ==
    IF recs = <<>> THEN m
    ELSE LET rec == Head(recs)
             entry == IF rec.ItemID \notin DOMAIN m
                      THEN [ItemID |-> rec.ItemID, CollaborativeScore |-> rec.Score,
                            ContentBasedScore |-> 0]
                      ELSE [m[rec.ItemID] EXCEPT !.CollaborativeScore = rec.Score]
         IN mergeCollaborative(MapPut(m, rec.ItemID, entry), Tail(recs))

\* hybridfiltering.go 127-139 with the entry of an item already merged replaced
\* by a content-only one
RECURSIVE mergeContentBasedReplace(_, _)
mergeContentBasedReplace(m, recs) ==
    IF recs = <<>> THEN m
    ELSE LET rec == Head(recs)
             entry == [ItemID |-> rec.ItemID, CollaborativeScore |-> 0,
                       ContentBasedScore |-> rec.Score]
         IN mergeContentBasedReplace(MapPut(m, rec.ItemID, entry), Tail(recs))

RECURSIVE mergeContentBased(_, _)
mergeContentBased(m, recs) ==
    IF recs = <<>> THEN m
    ELSE LET rec == Head(recs)
             entry == IF rec.ItemID \notin DOMAIN m
                      THEN [ItemID |-> rec.ItemID, CollaborativeScore |-> 0,
                            ContentBasedScore |-> rec.Score]
                      ELSE [m[rec.ItemID] EXCEPT !.ContentBasedScore = rec.Score]
         IN mergeContentBased(MapPut(m, rec.ItemID, entry), Tail(recs))

mergeRecommendations(collaborativeRecs, contentBasedRecs) ==
    mergeContentBased(mergeCollaborative(EmptyMap, collaborativeRecs), contentBasedRecs)

\* hybridfiltering.go 192-232
calculateDiversityScore(uim, feats, u, i) ==
    LET userHistory == DOMAIN MapGet(uim, u, EmptyMap)
        categoryCount(c) ==
            Cardinality({h \in userHistory : h \in DOMAIN feats /\ feats[h].Category = c})
        maxCount == MaxOf({categoryCount(c) : c \in Categories} \cup {0})
    IN IF userHistory = {} THEN One
       ELSE IF i \notin DOMAIN feats THEN One \div 2
       ELSE IF maxCount = 0 THEN One
       ELSE LET d == One - (categoryCount(feats[i].Category) * One) \div maxCount
            IN IF d < 0 THEN 0 ELSE d

\* users who rated the item
RatingCount(uim, i) == Cardinality({u \in DOMAIN uim : i \in DOMAIN uim[u]})

\* hybridfiltering.go 235-257: normalised by the longest user row
calculatePopularityScore(uim, i) ==
    LET maxRatingCount == MaxOf({Cardinality(DOMAIN uim[u]) : u \in DOMAIN uim} \cup {0})
    IN IF maxRatingCount = 0 THEN One \div 2
       ELSE (RatingCount(uim, i) * One) \div maxRatingCount

\* hybridfiltering.go 260-274
calculateRecencyScore(uim, i) ==
    LET r == (RatingCount(uim, i) * One) \div 100
    IN IF r > One THEN One ELSE r

Abs(x) == IF x < 0 THEN 0 - x ELSE x

\* the disagreement test taken before the agreement test
calculateConfidenceDisagreeFirst(rec) ==
    IF Abs(rec.CollaborativeScore - rec.ContentBasedScore) > Fx(80) THEN Fx(30)
    ELSE IF rec.CollaborativeScore > Fx(50) /\ rec.ContentBasedScore > Fx(50) THEN Fx(90)
    ELSE Fx(70)

\* hybridfiltering.go 277-295
calculateConfidence(rec) ==
    IF rec.CollaborativeScore > Fx(50) /\ rec.ContentBasedScore > Fx(50) THEN Fx(90)
    ELSE IF Abs(rec.CollaborativeScore - rec.ContentBasedScore) > Fx(80) THEN Fx(30)
    ELSE Fx(70)

\* hybridfiltering.go 298-322: the reasons joined, or the default text
generateRecommendationReason(rec) ==
    LET reasons ==
            (IF rec.CollaborativeScore > Fx(50) THEN <<"history">> ELSE <<>>)
         \o (IF rec.ContentBasedScore > Fx(50) THEN <<"similar">> ELSE <<>>)
         \o (IF rec.DiversityScore > Fx(70) THEN <<"new-type">> ELSE <<>>)
         \o (IF rec.PopularityScore > Fx(70) THEN <<"popular">> ELSE <<>>)
    IN IF reasons = <<>> THEN <<"default">> ELSE reasons

\* hybridfiltering.go 146-189 for one entry of the merged map, under the
\* default configuration (diversity, popularity and recency enabled)
HybridScoreOf(uim, feats, u, rec) ==
    LET diversityScore == calculateDiversityScore(uim, feats, u, rec.ItemID)
        popularityScore == calculatePopularityScore(uim, rec.ItemID)
        recencyScore == calculateRecencyScore(uim, rec.ItemID)
        finalScore == (CollaborativeWeight * rec.CollaborativeScore
                       + ContentBasedWeight * rec.ContentBasedScore
                       + DiversityWeight * diversityScore
                       + PopularityWeight * popularityScore
                       + RecencyWeight * recencyScore) \div 100
        scored == [ItemID |-> rec.ItemID,
                   Score |-> finalScore,
                   CollaborativeScore |-> rec.CollaborativeScore,
                   ContentBasedScore |-> rec.ContentBasedScore,
                   DiversityScore |-> diversityScore,
                   PopularityScore |-> popularityScore,
                   RecencyScore |-> recencyScore]
        withConfidence == scored @@ [Confidence |-> calculateConfidence(scored)]
    IN withConfidence @@ [Reason |-> generateRecommendationReason(scored)]

\* hybridfiltering.go 146-189: the map is ranged over in the order `order`
calculateHybridScores(uim, feats, u, recommendations, order) ==
    [k \in 1..Len(order) |-> HybridScoreOf(uim, feats, u, recommendations[order[k]])]

\* hybridfiltering.go 337-373 without the swap: the best remaining item is
\* appended where it stands
RECURSIVE DiversityLoopNoSwap(_, _, _, _, _)
DiversityLoopNoSwap(feats, recommendations, optimized, selectedCategories, i) ==
    IF i > Len(recommendations) THEN optimized
    ELSE LET cand == {j \in i..Len(recommendations) :
                         recommendations[j].ItemID \in DOMAIN feats}
             eff(j) == IF feats[recommendations[j].ItemID].Category \in selectedCategories
                       THEN recommendations[j].DiversityScore \div 2
                       ELSE recommendations[j].DiversityScore
             bestIdx == IF cand = {} THEN 0
                        ELSE CHOOSE j \in cand :
                                \A k \in cand : eff(j) > eff(k) \/ (eff(j) = eff(k) /\ j <= k)
         IN IF bestIdx = 0
            THEN DiversityLoopNoSwap(feats, recommendations, optimized, selectedCategories, i + 1)
            ELSE DiversityLoopNoSwap(feats, recommendations,
                     Append(optimized, recommendations[bestIdx]),
                     selectedCategories \cup {feats[recommendations[bestIdx].ItemID].Category},
                     i + 1)

\* hybridfiltering.go 337-373: position i takes the first item of i.. with the
\* highest diversity score (halved when its category is already selected);
\* items without features are passed over, and when none is left with
\* features nothing is appended for position i
RECURSIVE DiversityLoop(_, _, _, _, _)
DiversityLoop(feats, recommendations, optimized, selectedCategories, i) ==
    IF i > Len(recommendations) THEN optimized
    ELSE LET cand == {j \in i..Len(recommendations) :
                         recommendations[j].ItemID \in DOMAIN feats}
             eff(j) == IF feats[recommendations[j].ItemID].Category \in selectedCategories
                       THEN recommendations[j].DiversityScore \div 2
                       ELSE recommendations[j].DiversityScore
             bestIdx == IF cand = {} THEN 0
                        ELSE CHOOSE j \in cand :
                                \A k \in cand : eff(j) > eff(k) \/ (eff(j) = eff(k) /\ j <= k)
             swapped == [recommendations EXCEPT ![i] = recommendations[bestIdx],
                                               ![bestIdx] = recommendations[i]]
         IN IF bestIdx = 0
            THEN DiversityLoop(feats, recommendations, optimized, selectedCategories, i + 1)
            ELSE DiversityLoop(feats, swapped,
                     Append(optimized, swapped[i]),
                     selectedCategories \cup {feats[swapped[i].ItemID].Category},
                     i + 1)

\* hybridfiltering.go 325-376
applyDiversityOptimization(feats, recommendations) ==
    IF Len(recommendations) <= 1 THEN recommendations
    ELSE LET first == recommendations[1].ItemID
         IN DiversityLoop(feats, recommendations, <<recommendations[1]>>,
                IF first \in DOMAIN feats THEN {feats[first].Category} ELSE {}, 2)

\* hybridfiltering.go 85-105 on the two component lists: what the call can
\* return, with the lists it was computed from
HybridResults(u, topN, collaborativeLists, contentBasedLists) ==
    UNION {
      LET allRecommendations == mergeRecommendations(collaborativeRecs, contentBasedRecs)
      IN UNION {
           LET hybridRecs == applyDiversityOptimization(itemFeatures,
                                 calculateHybridScores(userItemMatrix, itemFeatures, u,
                                                       allRecommendations, order))
           IN {[called |-> TRUE, user |-> u, topN |-> topN,
                collab |-> collaborativeRecs, content |-> contentBasedRecs,
                recs |-> FirstN(sorted, topN)] : sorted \in SortedByScore(hybridRecs)} :
           order \in Perms(DOMAIN allRecommendations)} :
      collaborativeRecs \in collaborativeLists, contentBasedRecs \in contentBasedLists}

\* hybridfiltering.go 74-106; the call reads the engines and changes nothing,
\* so one call per filled engine state is followed
GenerateRecommendations(u, topN) ==
    /\ cpc = "blend"
    /\ ~hybridOut.called
    /\ hybridOut' \in HybridResults(u, topN,
                        UserBasedRecommend(userItemMatrix, u, topN * 2),
                        contentBased_GenerateRecommendations(itemFeatures, u, topN * 2))
    /\ UNCHANGED <<userItemMatrix, itemUserMatrix, itemFeatures>>
    /\ UNCHANGED <<recallVars, results, mergeVars, lifeVars, profileVars, lockVars>>

EngineStep ==
    \/ \E u \in Users, i \in CatalogItems, r \in RatingValues : AddUserRating(u, i, r)
    \/ \E i \in CatalogItems, c \in Categories : AddItemFeatures(i, c, <<>>, EmptyMap)
    \/ \E u \in Users, topN \in 1..MaxTopN : GenerateRecommendations(u, topN)

\* ---- the engines exercised on their own, with the lists they compute
\* the item descriptions registered, the ratings of interactions
ItemDescriptions ==
    {[Category |-> "c1", Keywords |-> <<"k">>, Features |-> [f \in FeatureNames |-> 1]],
     [Category |-> "c2", Keywords |-> <<>>, Features |-> EmptyMap]}
BehaviorRatings == {5, 200}
\* the user whose interactions are recorded and who asks for recommendations
QueryUsers == {"u1"}

BehaviorTotal(history) ==
    Cardinality({p \in Users \X CatalogItems :
                    p[1] \in DOMAIN history /\ p[2] \in DOMAIN history[p[1]]})

\* part_003 123-148 without the early return for an unregistered item: the
\* profile is created or stamped with the current time all the same
AddUserBehaviorNoEarlyReturn(u, i, r) ==
    /\ cpc \in {"engine", "profile"}
    /\ ~hybridOut.called /\ ~recOut.called
    /\ BehaviorTotal(userItemHistory) <
          (IF cpc = "profile" THEN MaxProfileBehaviors ELSE MaxBehaviors)
    /\ i \notin DOMAIN MapGet(userItemHistory, u, EmptyMap)
    /\ userItemHistory' =
          MapPut(userItemHistory, u, MapPut(MapGet(userItemHistory, u, EmptyMap), i, r))
    /\ userProfiles' = IF i \in DOMAIN itemFeatures
                       THEN updateUserProfile(userProfiles, u, itemFeatures[i], r, now)
                       ELSE MapPut(userProfiles, u,
                                   [UserID |-> u,
                                    FeatureVector |->
                                        IF u \in DOMAIN userProfiles
                                        THEN userProfiles[u].FeatureVector ELSE EmptyMap,
                                    Preferences |->
                                        IF u \in DOMAIN userProfiles
                                        THEN userProfiles[u].Preferences ELSE EmptyMap,
                                    UpdateTime |-> now])
    /\ UNCHANGED <<itemSimilarity, now, recOut, engineVars>>
    /\ UNCHANGED <<recallVars, results, mergeVars, lifeVars, lockVars>>

\* part_003 123-148: the interaction enters the history; the profile is
\* updated only when the item's features are registered
AddUserBehavior(u, i, r) ==
    /\ cpc \in {"engine", "profile"}
    /\ ~hybridOut.called /\ ~recOut.called
    /\ BehaviorTotal(userItemHistory) <
          (IF cpc = "profile" THEN MaxProfileBehaviors ELSE MaxBehaviors)
    /\ i \notin DOMAIN MapGet(userItemHistory, u, EmptyMap)
    /\ userItemHistory' =
          MapPut(userItemHistory, u, MapPut(MapGet(userItemHistory, u, EmptyMap), i, r))
    /\ userProfiles' = IF i \in DOMAIN itemFeatures
                       THEN updateUserProfile(userProfiles, u, itemFeatures[i], r, now)
                       ELSE userProfiles
    /\ UNCHANGED <<itemSimilarity, now, recOut, engineVars>>
    /\ UNCHANGED <<recallVars, results, mergeVars, lifeVars, lockVars>>

\* a day passes
Tick ==
    /\ cpc \in {"engine", "profile"}
    /\ ~hybridOut.called /\ ~recOut.called
    /\ DOMAIN userProfiles # {}
    /\ now <= MaxElapsedDays
    /\ now' = now + 1
    /\ UNCHANGED <<itemSimilarity, userProfiles, userItemHistory, recOut, engineVars>>
    /\ UNCHANGED <<recallVars, results, mergeVars, lifeVars, lockVars>>

CallUserBasedRecommend(u, topN) ==
    /\ cpc = "engine"
    /\ ~hybridOut.called /\ ~recOut.called
    /\ \E recs \in UserBasedRecommendLists(userItemMatrix, u, topN) :
          recOut' = [called |-> TRUE, op |-> "UserBasedRecommend", user |-> u,
                     topN |-> topN, recs |-> recs]
    /\ UNCHANGED <<itemSimilarity, userProfiles, userItemHistory, now, engineVars>>
    /\ UNCHANGED <<recallVars, results, mergeVars, lifeVars, lockVars>>

\* the item-similarity cache is built on the first call for a known user
CallItemBasedRecommend(u, topN) ==
    /\ cpc = "engine"
    /\ ~hybridOut.called /\ ~recOut.called
    /\ \E recs \in ItemBasedRecommendLists(userItemMatrix, itemUserMatrix, u, topN) :
          recOut' = [called |-> TRUE, op |-> "ItemBasedRecommend", user |-> u,
                     topN |-> topN, recs |-> recs]
    /\ itemSimilarity' = ItemBasedRecommendCache(userItemMatrix, itemUserMatrix,
                                                 itemSimilarity, u)
    /\ UNCHANGED <<userProfiles, userItemHistory, now, engineVars>>
    /\ UNCHANGED <<recallVars, results, mergeVars, lifeVars, lockVars>>

CallContentRecommend(u, topN) ==
    /\ cpc \in {"engine", "profile"}
    /\ ~hybridOut.called /\ ~recOut.called
    /\ \E recs \in ContentRecommendLists(userProfiles, itemFeatures, userItemHistory, u, topN) :
          recOut' = [called |-> TRUE, op |-> "GenerateRecommendations", user |-> u,
                     topN |-> topN, recs |-> recs]
    /\ UNCHANGED <<itemSimilarity, userProfiles, userItemHistory, now, engineVars>>
    /\ UNCHANGED <<recallVars, results, mergeVars, lifeVars, lockVars>>

\* hybridfiltering.go 74-106 over the engines' own lists
CallHybridRecommend(u, topN) ==
    /\ cpc \in {"engine", "matrix"}
    /\ ~hybridOut.called /\ ~recOut.called
    /\ hybridOut' \in HybridResults(u, topN,
                        UserBasedRecommendLists(userItemMatrix, u, topN * 2),
                        ContentRecommendLists(userProfiles, itemFeatures, userItemHistory,
                                              u, topN * 2))
    /\ UNCHANGED <<userItemMatrix, itemUserMatrix, itemFeatures>>
    /\ UNCHANGED <<recallVars, results, mergeVars, lifeVars, profileVars, lockVars>>

EngineNext ==
    \/ \E u \in Users, i \in CatalogItems, r \in RatingValues : AddUserRating(u, i, r)
    \/ \E i \in CatalogItems, d \in ItemDescriptions :
          AddItemFeatures(i, d.Category, d.Keywords, d.Features)
    \/ \E u \in QueryUsers, i \in CatalogItems, r \in BehaviorRatings : AddUserBehavior(u, i, r)
    \/ Tick
    \/ \E u \in QueryUsers, topN \in 1..MaxTopN : CallUserBasedRecommend(u, topN)
    \/ \E u \in QueryUsers, topN \in 1..MaxTopN : CallItemBasedRecommend(u, topN)
    \/ \E u \in QueryUsers, topN \in 1..MaxTopN : CallContentRecommend(u, topN)
    \/ \E u \in QueryUsers, topN \in 1..MaxTopN : CallHybridRecommend(u, topN)

\* ---- the engines over a rating matrix large enough for neighbours to exist:
\* a user is a neighbour only from five common items on (weight n/50 against
\* the threshold 0.1)
SharedItems == {"s1", "s2", "s3", "s4", "s5"}
\* the ratings a user gave to the shared items
RatingPatterns ==
    {[i \in SharedItems |-> CASE i = "s1" -> 1 [] i = "s2" -> 2 [] i = "s3" -> 3
                               [] i = "s4" -> 4 [] OTHER -> 5],
     [i \in SharedItems |-> CASE i = "s1" -> 5 [] i = "s2" -> 4 [] i = "s3" -> 3
                               [] i = "s4" -> 2 [] OTHER -> 1],
     [i \in {"s1", "s2", "s3"} |-> CASE i = "s1" -> 2 [] i = "s2" -> 4 [] OTHER -> 5],
     [i \in {"s5"} |-> 3]}

\* collaborativefiltering.go 55-76: the item index after the ratings of uim
\* were added
ItemIndexOf(uim) ==
    [i \in UNION {DOMAIN uim[u] : u \in DOMAIN uim} |->
        [u \in {v \in DOMAIN uim : i \in DOMAIN uim[v]} |-> uim[u][i]]]

\* u1 rated shared items, u2 rated shared items and some catalog items
RatingMatrices ==
    {[u \in Users |->
        IF u = "u1" THEN p
        ELSE [i \in DOMAIN q \cup extra |-> IF i \in DOMAIN q THEN q[i] ELSE r[i]]] :
     p \in RatingPatterns, q \in RatingPatterns, extra \in SUBSET CatalogItems,
     r \in {[i \in CatalogItems |-> 5],
            [i \in CatalogItems |-> CASE i = "i1" -> 5 [] i = "i2" -> 4 [] OTHER -> 3]}}

\* collaborativefiltering.go 79-104, the result kept with its arguments
CallCalculateUserSimilarity(a, b) ==
    /\ cpc = "matrix"
    /\ ~hybridOut.called /\ ~recOut.called
    /\ recOut' = [called |-> TRUE, op |-> "CalculateUserSimilarity", user |-> a, topN |-> 0,
                  recs |-> <<[ItemID |-> b,
                              Score |-> CalculateUserSimilarity(userItemMatrix, a, b)]>>]
    /\ UNCHANGED <<itemSimilarity, userProfiles, userItemHistory, now, engineVars>>
    /\ UNCHANGED <<recallVars, results, mergeVars, lifeVars, lockVars>>

\* collaborativefiltering.go 107-120, the result kept with its arguments
CallCalculateItemSimilarity(a, b) ==
    /\ cpc = "matrix"
    /\ ~hybridOut.called /\ ~recOut.called
    /\ recOut' = [called |-> TRUE, op |-> "CalculateItemSimilarity", user |-> a, topN |-> 0,
                  recs |-> <<[ItemID |-> b,
                              Score |-> CalculateItemSimilarity(itemUserMatrix, a, b)]>>]
    /\ UNCHANGED <<itemSimilarity, userProfiles, userItemHistory, now, engineVars>>
    /\ UNCHANGED <<recallVars, results, mergeVars, lifeVars, lockVars>>

MatrixNext ==
    \/ \E i \in CatalogItems, d \in ItemDescriptions :
          AddItemFeatures(i, d.Category, d.Keywords, d.Features)
    \/ \E a \in Users \cup {"u3"}, b \in Users : CallCalculateUserSimilarity(a, b)
    \/ \E a \in SharedItems \cup CatalogItems, b \in SharedItems \cup CatalogItems :
          CallCalculateItemSimilarity(a, b)
    \/ \E u \in QueryUsers, topN \in 1..MaxTopN : CallHybridRecommend(u, topN)

\* ---- the engines called from concurrent goroutines: every method is a
\* sequence of steps between its lock operations
\* the ratings written while goroutines run concurrently
LockRatingCells == {<<"u1", "i1">>, <<"u1", "i2">>, <<"u2", "i1">>}
LockRatingValues == {3, 5}

\* sync.RWMutex: RLock waits while a writer holds the lock or has called
\* Lock; Lock waits for the writer and for every reader to leave
CanRLock(l) == mu[l].writer = "" /\ mu[l].pending = {}
RLocked(l, g) == [mu EXCEPT ![l].readers = @ (+) SetToBag({g})]
RUnlocked(l, g) == [mu EXCEPT ![l].readers = @ (-) SetToBag({g})]
ReadHolds(l, g) == IF BagIn(g, mu[l].readers) THEN CopiesIn(g, mu[l].readers) ELSE 0
\* the locks goroutine g holds, for reading or for writing
Holding(g) == {l \in LockNames : mu[l].writer = g \/ ReadHolds(l, g) > 0}

At(g, op, pc) == gpc[g].op = op /\ gpc[g].pc = pc
Goto(g, pc) == [gpc EXCEPT ![g].pc = pc]

\* collaborativefiltering.go 55-57: the call to Lock is announced to readers
RatingCall(g, u, i, r) ==
    /\ cpc = "locks"
    /\ gpc[g] = Idle
    /\ gpc' = [gpc EXCEPT ![g] = [op |-> "AddUserRating", pc |-> "Lock",
                                  user |-> u, item |-> i, rating |-> r]]
    /\ mu' = [mu EXCEPT !["collab"].pending = @ \cup {g}]
    /\ UNCHANGED <<lastRated, engineVars, itemSimilarity, userProfiles, userItemHistory,
                   now, recOut>>
    /\ UNCHANGED <<recallVars, results, mergeVars, lifeVars>>

\* Lock returns once no writer and no reader is left
RatingLock(g) ==
    /\ cpc = "locks"
    /\ At(g, "AddUserRating", "Lock")
    /\ mu["collab"].writer = "" /\ mu["collab"].readers = EmptyBag
    /\ mu' = [mu EXCEPT !["collab"].writer = g, !["collab"].pending = @ \ {g}]
    /\ gpc' = Goto(g, "writeUser")
    /\ UNCHANGED <<lastRated, engineVars, itemSimilarity, userProfiles, userItemHistory,
                   now, recOut>>
    /\ UNCHANGED <<recallVars, results, mergeVars, lifeVars>>

\* collaborativefiltering.go 59-63
RatingWriteUser(g) ==
    /\ cpc = "locks"
    /\ At(g, "AddUserRating", "writeUser")
    /\ userItemMatrix' =
          MapPut(userItemMatrix, gpc[g].user,
                 MapPut(MapGet(userItemMatrix, gpc[g].user, EmptyMap),
                        gpc[g].item, gpc[g].rating))
    /\ gpc' = Goto(g, "writeItem")
    /\ UNCHANGED <<mu, lastRated, itemUserMatrix, itemFeatures, hybridOut, itemSimilarity,
                   userProfiles, userItemHistory, now, recOut>>
    /\ UNCHANGED <<recallVars, results, mergeVars, lifeVars>>

\* collaborativefiltering.go 65-69 with the write left out
RatingWriteItemSkipped(g) ==
    /\ cpc = "locks"
    /\ At(g, "AddUserRating", "writeItem")
    /\ itemUserMatrix' = itemUserMatrix
    /\ gpc' = Goto(g, "Unlock")
    /\ UNCHANGED <<mu, lastRated, userItemMatrix, itemFeatures, hybridOut, itemSimilarity,
                   userProfiles, userItemHistory, now, recOut>>
    /\ UNCHANGED <<recallVars, results, mergeVars, lifeVars>>

\* collaborativefiltering.go 65-69
RatingWriteItem(g) ==
    /\ cpc = "locks"
    /\ At(g, "AddUserRating", "writeItem")
    /\ itemUserMatrix' =
          MapPut(itemUserMatrix, gpc[g].item,
                 MapPut(MapGet(itemUserMatrix, gpc[g].item, EmptyMap),
                        gpc[g].user, gpc[g].rating))
    /\ gpc' = Goto(g, "Unlock")
    /\ UNCHANGED <<mu, lastRated, userItemMatrix, itemFeatures, hybridOut, itemSimilarity,
                   userProfiles, userItemHistory, now, recOut>>
    /\ UNCHANGED <<recallVars, results, mergeVars, lifeVars>>

\* the deferred Unlock: the call returns, its rating is the last one recorded
\* for the pair
RatingUnlock(g) ==
    /\ cpc = "locks"
    /\ At(g, "AddUserRating", "Unlock")
    /\ mu' = [mu EXCEPT !["collab"].writer = ""]
    /\ lastRated' = MapPut(lastRated, <<gpc[g].user, gpc[g].item>>, gpc[g].rating)
    /\ gpc' = [gpc EXCEPT ![g] = Idle]
    /\ UNCHANGED <<engineVars, itemSimilarity, userProfiles, userItemHistory, now, recOut>>
    /\ UNCHANGED <<recallVars, results, mergeVars, lifeVars>>

\* collaborativefiltering.go 123-125 and 177-179: the recommend call takes the
\* read lock
RecommendCall(g, op, u) ==
    /\ cpc = "locks"
    /\ gpc[g] = Idle
    /\ CanRLock("collab")
    /\ mu' = RLocked("collab", g)
    /\ gpc' = [gpc EXCEPT ![g] = [op |-> op, pc |-> "checkUser", user |-> u,
                                  item |-> "", rating |-> 0]]
    /\ UNCHANGED <<lastRated, engineVars, itemSimilarity, userProfiles, userItemHistory,
                   now, recOut>>
    /\ UNCHANGED <<recallVars, results, mergeVars, lifeVars>>

\* hybridfiltering.go 74-79: the hybrid call takes its own read lock and then
\* calls UserBasedRecommend, which takes the collaborative engine's
HybridCall(g, u) ==
    /\ cpc = "locks"
    /\ gpc[g] = Idle
    /\ CanRLock("hybrid")
    /\ mu' = RLocked("hybrid", g)
    /\ gpc' = [gpc EXCEPT ![g] = [op |-> "GenerateRecommendations", pc |-> "collab",
                                  user |-> u, item |-> "", rating |-> 0]]
    /\ UNCHANGED <<lastRated, engineVars, itemSimilarity, userProfiles, userItemHistory,
                   now, recOut>>
    /\ UNCHANGED <<recallVars, results, mergeVars, lifeVars>>

HybridCollab(g) ==
    /\ cpc = "locks"
    /\ At(g, "GenerateRecommendations", "collab")
    /\ CanRLock("collab")
    /\ mu' = RLocked("collab", g)
    /\ gpc' = Goto(g, "checkUser")
    /\ UNCHANGED <<lastRated, engineVars, itemSimilarity, userProfiles, userItemHistory,
                   now, recOut>>
    /\ UNCHANGED <<recallVars, results, mergeVars, lifeVars>>

\* collaborativefiltering.go 127-130 and 181-189: an unknown user returns at
\* once; ItemBasedRecommend goes on to look at the cache
RecommendCheckUser(g) ==
    /\ cpc = "locks"
    /\ gpc[g].pc = "checkUser"
    /\ gpc' = Goto(g, IF gpc[g].user \notin DOMAIN userItemMatrix THEN "RUnlock"
                      ELSE IF gpc[g].op = "ItemBasedRecommend" THEN "checkCache"
                      ELSE "similar")
    /\ UNCHANGED <<mu, lastRated, engineVars, itemSimilarity, userProfiles, userItemHistory,
                   now, recOut>>
    /\ UNCHANGED <<recallVars, results, mergeVars, lifeVars>>

\* collaborativefiltering.go 187: len(c.itemSimilarity) == 0
ItemCheckCache(g) ==
    /\ cpc = "locks"
    /\ At(g, "ItemBasedRecommend", "checkCache")
    /\ gpc' = Goto(g, IF Cardinality(DOMAIN itemSimilarity) = 0 THEN "build" ELSE "similar")
    /\ UNCHANGED <<mu, lastRated, engineVars, itemSimilarity, userProfiles, userItemHistory,
                   now, recOut>>
    /\ UNCHANGED <<recallVars, results, mergeVars, lifeVars>>

\* collaborativefiltering.go 365-379: with two items or more the loop calls
\* CalculateItemSimilarity, which takes the read lock again (107-109)
ItemBuild(g) ==
    /\ cpc = "locks"
    /\ At(g, "ItemBasedRecommend", "build")
    /\ IF Cardinality(DOMAIN itemUserMatrix) >= 2
       THEN CanRLock("collab") /\ mu' = RLocked("collab", g)
       ELSE mu' = mu
    /\ gpc' = Goto(g, "buildWrite")
    /\ UNCHANGED <<lastRated, engineVars, itemSimilarity, userProfiles, userItemHistory,
                   now, recOut>>
    /\ UNCHANGED <<recallVars, results, mergeVars, lifeVars>>

\* the similarities are stored in c.itemSimilarity (366-377) after the nested
\* read lock is given back
ItemBuildWrite(g) ==
    /\ cpc = "locks"
    /\ At(g, "ItemBasedRecommend", "buildWrite")
    /\ mu' = IF ReadHolds("collab", g) = 2 THEN RUnlocked("collab", g) ELSE mu
    /\ itemSimilarity' = buildItemSimilarityMatrix(itemUserMatrix)
    /\ gpc' = Goto(g, "similar")
    /\ UNCHANGED <<lastRated, engineVars, userProfiles, userItemHistory, now, recOut>>
    /\ UNCHANGED <<recallVars, results, mergeVars, lifeVars>>

\* collaborativefiltering.go 303-311 and 334-342: with another user (another
\* item) present, CalculateUserSimilarity (CalculateItemSimilarity) takes the
\* read lock again while the caller still holds it
RecommendSimilar(g) ==
    /\ cpc = "locks"
    /\ gpc[g].pc = "similar"
    /\ LET others == IF gpc[g].op = "ItemBasedRecommend"
                     THEN Cardinality(DOMAIN itemUserMatrix)
                     ELSE Cardinality(DOMAIN userItemMatrix)
       IN IF others >= 2
          THEN CanRLock("collab") /\ mu' = RLocked("collab", g)
          ELSE mu' = mu
    /\ gpc' = Goto(g, "similarDone")
    /\ UNCHANGED <<lastRated, engineVars, itemSimilarity, userProfiles, userItemHistory,
                   now, recOut>>
    /\ UNCHANGED <<recallVars, results, mergeVars, lifeVars>>

\* the similarity is computed and the nested read lock given back
RecommendSimilarDone(g) ==
    /\ cpc = "locks"
    /\ gpc[g].pc = "similarDone"
    /\ mu' = IF ReadHolds("collab", g) = 2 THEN RUnlocked("collab", g) ELSE mu
    /\ gpc' = Goto(g, "RUnlock")
    /\ UNCHANGED <<lastRated, engineVars, itemSimilarity, userProfiles, userItemHistory,
                   now, recOut>>
    /\ UNCHANGED <<recallVars, results, mergeVars, lifeVars>>

\* the deferred RUnlock of the collaborative engine; the hybrid call goes on
\* to the content engine
RecommendRUnlock(g) ==
    /\ cpc = "locks"
    /\ gpc[g].pc = "RUnlock"
    /\ mu' = RUnlocked("collab", g)
    /\ gpc' = IF gpc[g].op = "GenerateRecommendations" THEN Goto(g, "content")
              ELSE [gpc EXCEPT ![g] = Idle]
    /\ UNCHANGED <<lastRated, engineVars, itemSimilarity, userProfiles, userItemHistory,
                   now, recOut>>
    /\ UNCHANGED <<recallVars, results, mergeVars, lifeVars>>

\* part_003 212-214: the content engine's read lock
HybridContent(g) ==
    /\ cpc = "locks"
    /\ At(g, "GenerateRecommendations", "content")
    /\ CanRLock("content")
    /\ mu' = RLocked("content", g)
    /\ gpc' = Goto(g, "contentDone")
    /\ UNCHANGED <<lastRated, engineVars, itemSimilarity, userProfiles, userItemHistory,
                   now, recOut>>
    /\ UNCHANGED <<recallVars, results, mergeVars, lifeVars>>

\* the content list is computed and the lock given back; with a candidate in
\* the merged lists calculateHybridScores calls the score helpers.  (The
\* collaborative list is empty here: a neighbour needs five common items.)
HybridContentDone(g) ==
    /\ cpc = "locks"
    /\ At(g, "GenerateRecommendations", "contentDone")
    /\ mu' = RUnlocked("content", g)
    /\ gpc' = Goto(g, IF ContentRecommendLists(userProfiles, itemFeatures, userItemHistory,
                                               gpc[g].user, 2) = {<<>>}
                      THEN "return" ELSE "helpers")
    /\ UNCHANGED <<lastRated, engineVars, itemSimilarity, userProfiles, userItemHistory,
                   now, recOut>>
    /\ UNCHANGED <<recallVars, results, mergeVars, lifeVars>>

\* hybridfiltering.go 192-274: the helpers read the collaborative engine's
\* userItemMatrix and the content engine's itemFeatures directly
HybridHelpers(g) ==
    /\ cpc = "locks"
    /\ At(g, "GenerateRecommendations", "helpers")
    /\ gpc' = Goto(g, "return")
    /\ UNCHANGED <<mu, lastRated, engineVars, itemSimilarity, userProfiles, userItemHistory,
                   now, recOut>>
    /\ UNCHANGED <<recallVars, results, mergeVars, lifeVars>>

\* hybridfiltering.go 76: the deferred RUnlock of the hybrid engine
HybridReturn(g) ==
    /\ cpc = "locks"
    /\ At(g, "GenerateRecommendations", "return")
    /\ mu' = RUnlocked("hybrid", g)
    /\ gpc' = [gpc EXCEPT ![g] = Idle]
    /\ UNCHANGED <<lastRated, engineVars, itemSimilarity, userProfiles, userItemHistory,
                   now, recOut>>
    /\ UNCHANGED <<recallVars, results, mergeVars, lifeVars>>

\* the shared structure the next step of g reads ("r") or writes ("w")
Accesses(g) ==
    LET op == gpc[g].op
        pc == gpc[g].pc
    IN CASE op = "AddUserRating" /\ pc = "writeUser" -> {<<"userItemMatrix", "w">>}
         [] op = "AddUserRating" /\ pc = "writeItem" -> {<<"itemUserMatrix", "w">>}
         [] pc = "checkUser" -> {<<"userItemMatrix", "r">>}
         [] pc = "checkCache" -> {<<"itemSimilarity", "r">>}
         [] pc = "buildWrite" -> {<<"itemSimilarity", "w">>, <<"itemUserMatrix", "r">>}
         [] pc = "similarDone" -> {<<"userItemMatrix", "r">>, <<"itemUserMatrix", "r">>}
         [] pc = "contentDone" -> {<<"userProfiles", "r">>, <<"itemFeatures", "r">>}
         [] pc = "helpers" -> {<<"userItemMatrix", "r">>, <<"itemFeatures", "r">>}
         [] OTHER -> {}

LockNext ==
    \/ \E g \in Goroutines, c \in LockRatingCells, r \in LockRatingValues :
          RatingCall(g, c[1], c[2], r)
    \/ \E g \in Goroutines : RatingLock(g)
    \/ \E g \in Goroutines : RatingWriteUser(g)
    \/ \E g \in Goroutines : RatingWriteItem(g)
    \/ \E g \in Goroutines : RatingUnlock(g)
    \/ \E g \in Goroutines, u \in Users,
          op \in {"UserBasedRecommend", "ItemBasedRecommend"} : RecommendCall(g, op, u)
    \/ \E g \in Goroutines, u \in QueryUsers : HybridCall(g, u)
    \/ \E g \in Goroutines : HybridCollab(g)
    \/ \E g \in Goroutines : RecommendCheckUser(g)
    \/ \E g \in Goroutines : ItemCheckCache(g)
    \/ \E g \in Goroutines : ItemBuild(g)
    \/ \E g \in Goroutines : ItemBuildWrite(g)
    \/ \E g \in Goroutines : RecommendSimilar(g)
    \/ \E g \in Goroutines : RecommendSimilarDone(g)
    \/ \E g \in Goroutines : RecommendRUnlock(g)
    \/ \E g \in Goroutines : HybridContent(g)
    \/ \E g \in Goroutines : HybridContentDone(g)
    \/ \E g \in Goroutines : HybridHelpers(g)
    \/ \E g \in Goroutines : HybridReturn(g)

\* ---- the content engine exercised alone: items registered, interactions
\* recorded on different days, recommendations asked
ProfileNext ==
    \/ \E i \in CatalogItems, d \in ItemDescriptions :
          AddItemFeatures(i, d.Category, d.Keywords, d.Features)
    \/ \E u \in QueryUsers, i \in CatalogItems, r \in BehaviorRatings : AddUserBehavior(u, i, r)
    \/ Tick
    \/ \E u \in QueryUsers, topN \in 1..MaxTopN : CallContentRecommend(u, topN)

Next ==
    \/ ParallelRecallStep
    \/ CallMergeResults

Spec == Init /\ [][Next]_vars

\* Either a caller-filled MultiRecall and its merge (cpc = "direct"), or the
\* recommendation engines being filled and queried (cpc = "blend"): the two
\* share no state, so a behaviour follows one of them.
InitPool ==
    /\ recallTypes = <<>>
    /\ cpc \in {"direct", "blend"}
    /\ launchIdx = 0
    /\ wpc = [s \in Sources |-> "idle"]
    /\ wres = [s \in Sources |-> NoOut]
    /\ executed = [s \in Sources |-> <<>>]
    /\ wg = 0
    /\ errChan = EmptyChan
    /\ doneChan = EmptyChan
    /\ kpc = "idle"
    /\ successCount = 0
    /\ errorCount = 0
    /\ results = NewMultiRecall
    /\ retErr = "pending"
    /\ heap = [r \in MapRefs |-> NoSources]
    /\ merged = NoMerge
    /\ mergeCalls = 0
    /\ srcUnhealthy = {}
    /\ srcCloseFails = {}
    /\ healthBad = {}
    /\ healthLog = <<>>
    /\ healthRet = {}
    /\ closeBad = {}
    /\ closeLog = <<>>
    /\ closeRet = {}
    /\ healthCalled = FALSE
    /\ closeCalled = FALSE
    /\ userItemMatrix = EmptyMap
    /\ itemUserMatrix = EmptyMap
    /\ itemFeatures = EmptyMap
    /\ hybridOut = NoHybridOut
    /\ InitEngines

PoolNext ==
    \/ \E s \in Sources : CallerAddResult(s)
    \/ CallMergeResults
    \/ EngineStep

PoolSpec == InitPool /\ [][PoolNext]_vars

\* the recommendation engines filled and queried through their own methods
InitEngine ==
    /\ recallTypes = <<>>
    /\ cpc = "engine"
    /\ launchIdx = 0
    /\ wpc = [s \in Sources |-> "idle"]
    /\ wres = [s \in Sources |-> NoOut]
    /\ executed = [s \in Sources |-> <<>>]
    /\ wg = 0
    /\ errChan = EmptyChan
    /\ doneChan = EmptyChan
    /\ kpc = "idle"
    /\ successCount = 0
    /\ errorCount = 0
    /\ results = NewMultiRecall
    /\ retErr = "pending"
    /\ heap = [r \in MapRefs |-> NoSources]
    /\ merged = NoMerge
    /\ mergeCalls = 0
    /\ srcUnhealthy = {}
    /\ srcCloseFails = {}
    /\ healthBad = {}
    /\ healthLog = <<>>
    /\ healthRet = {}
    /\ closeBad = {}
    /\ closeLog = <<>>
    /\ closeRet = {}
    /\ healthCalled = FALSE
    /\ closeCalled = FALSE
    /\ userItemMatrix = EmptyMap
    /\ itemUserMatrix = EmptyMap
    /\ itemFeatures = EmptyMap
    /\ hybridOut = NoHybridOut
    /\ InitEngines

EngineSpec == InitEngine /\ [][EngineNext]_vars

\* the engines queried over a filled rating matrix
InitMatrix ==
    /\ recallTypes = <<>>
    /\ cpc = "matrix"
    /\ launchIdx = 0
    /\ wpc = [s \in Sources |-> "idle"]
    /\ wres = [s \in Sources |-> NoOut]
    /\ executed = [s \in Sources |-> <<>>]
    /\ wg = 0
    /\ errChan = EmptyChan
    /\ doneChan = EmptyChan
    /\ kpc = "idle"
    /\ successCount = 0
    /\ errorCount = 0
    /\ results = NewMultiRecall
    /\ retErr = "pending"
    /\ heap = [r \in MapRefs |-> NoSources]
    /\ merged = NoMerge
    /\ mergeCalls = 0
    /\ srcUnhealthy = {}
    /\ srcCloseFails = {}
    /\ healthBad = {}
    /\ healthLog = <<>>
    /\ healthRet = {}
    /\ closeBad = {}
    /\ closeLog = <<>>
    /\ closeRet = {}
    /\ healthCalled = FALSE
    /\ closeCalled = FALSE
    /\ userItemMatrix \in RatingMatrices
    /\ itemUserMatrix = ItemIndexOf(userItemMatrix)
    /\ itemFeatures = EmptyMap
    /\ hybridOut = NoHybridOut
    /\ InitEngines

MatrixSpec == InitMatrix /\ [][MatrixNext]_vars

\* the engines shared by goroutines: two items are registered and u1 has
\* interacted with i2, so that u1 has a content candidate
LockItemFeatures ==
    [i \in {"i1", "i2"} |->
        [ItemID |-> i, Category |-> "c1", Keywords |-> <<"k">>,
         Features |-> [f \in FeatureNames |-> 1]]]

InitLocks ==
    /\ recallTypes = <<>>
    /\ cpc = "locks"
    /\ launchIdx = 0
    /\ wpc = [s \in Sources |-> "idle"]
    /\ wres = [s \in Sources |-> NoOut]
    /\ executed = [s \in Sources |-> <<>>]
    /\ wg = 0
    /\ errChan = EmptyChan
    /\ doneChan = EmptyChan
    /\ kpc = "idle"
    /\ successCount = 0
    /\ errorCount = 0
    /\ results = NewMultiRecall
    /\ retErr = "pending"
    /\ heap = [r \in MapRefs |-> NoSources]
    /\ merged = NoMerge
    /\ mergeCalls = 0
    /\ srcUnhealthy = {}
    /\ srcCloseFails = {}
    /\ healthBad = {}
    /\ healthLog = <<>>
    /\ healthRet = {}
    /\ closeBad = {}
    /\ closeLog = <<>>
    /\ closeRet = {}
    /\ healthCalled = FALSE
    /\ closeCalled = FALSE
    /\ userItemMatrix = EmptyMap
    /\ itemUserMatrix = EmptyMap
    /\ itemFeatures = LockItemFeatures
    /\ hybridOut = NoHybridOut
    /\ itemSimilarity = EmptyMap
    /\ userProfiles = updateUserProfile(EmptyMap, "u1", LockItemFeatures["i2"], 5, 1)
    /\ userItemHistory = [u \in {"u1"} |-> [i \in {"i2"} |-> 5]]
    /\ now = 1
    /\ recOut = NoRecOut
    /\ gpc = [g \in Goroutines |-> Idle]
    /\ mu = [l \in LockNames |-> FreeLock]
    /\ lastRated = EmptyMap

LockSpec == InitLocks /\ [][LockNext]_vars

\* a goroutine inside a method goes on whenever its next step is possible
\* (the Go scheduler); it is never obliged to start another call
Proceed(g) ==
    \/ RatingLock(g) \/ RatingWriteUser(g) \/ RatingWriteItem(g) \/ RatingUnlock(g)
    \/ HybridCollab(g) \/ RecommendCheckUser(g) \/ ItemCheckCache(g)
    \/ ItemBuild(g) \/ ItemBuildWrite(g) \/ RecommendSimilar(g)
    \/ RecommendSimilarDone(g) \/ RecommendRUnlock(g)
    \/ HybridContent(g) \/ HybridContentDone(g) \/ HybridHelpers(g) \/ HybridReturn(g)

FairLockSpec ==
    InitLocks /\ [][LockNext]_vars /\ \A g \in Goroutines : WF_vars(Proceed(g))

\* the content engine as constructed
InitProfile ==
    /\ recallTypes = <<>>
    /\ cpc = "profile"
    /\ launchIdx = 0
    /\ wpc = [s \in Sources |-> "idle"]
    /\ wres = [s \in Sources |-> NoOut]
    /\ executed = [s \in Sources |-> <<>>]
    /\ wg = 0
    /\ errChan = EmptyChan
    /\ doneChan = EmptyChan
    /\ kpc = "idle"
    /\ successCount = 0
    /\ errorCount = 0
    /\ results = NewMultiRecall
    /\ retErr = "pending"
    /\ heap = [r \in MapRefs |-> NoSources]
    /\ merged = NoMerge
    /\ mergeCalls = 0
    /\ srcUnhealthy = {}
    /\ srcCloseFails = {}
    /\ healthBad = {}
    /\ healthLog = <<>>
    /\ healthRet = {}
    /\ closeBad = {}
    /\ closeLog = <<>>
    /\ closeRet = {}
    /\ healthCalled = FALSE
    /\ closeCalled = FALSE
    /\ userItemMatrix = EmptyMap
    /\ itemUserMatrix = EmptyMap
    /\ itemFeatures = EmptyMap
    /\ hybridOut = NoHybridOut
    /\ InitEngines

ProfileSpec == InitProfile /\ [][ProfileNext]_vars

\* the MultiDataSource's HealthCheck / Close over sources whose condition varies
LifeSpec == Init /\ [][LifecycleStep]_vars

\* ParallelRecall under the Go scheduler: every goroutine that can take a step
\* eventually takes one
FairSpec == Init /\ [][Next]_vars /\ WF_vars(Next)

\* ====================================================================== claims
ItemIDsOf(items) == {items[k].ItemID : k \in DOMAIN items}
SetMax(S) == CHOOSE m \in S : \A x \in S : x <= m

\* C1: when ParallelRecall has returned, every source whose recall succeeded
\* has exactly its result stored under its name in the returned MultiRecall,
\* and a source whose recall failed has no entry; MergeResults runs over
\* exactly these results.
C1_FailureIsolation ==
    cpc = "returned" =>
        /\ \A s \in Sources :
              /\ wres[s].state = "ok" =>
                    /\ GetName(s) \in DOMAIN results
                    /\ results[GetName(s)] = wres[s].result
              /\ wres[s].state = "err" => GetName(s) \notin DOMAIN results
        /\ merged.state # "none" => merged.input = results

C1_Witness ==
    /\ cpc = "returned"
    /\ \E s, t \in Sources :
          /\ wres[s].state = "err"
          /\ wres[t].state = "ok"
          /\ GetName(t) \in DOMAIN results
          /\ results[GetName(t)].Items # <<>>

\* C2: ParallelRecall is a barrier: once it has returned, and whenever
\* MergeResults has run, every worker goroutine that was started has finished
\* (so none is yet to call AddResult).
C2_Barrier ==
    (cpc = "returned" \/ merged.state # "none") =>
        \A s \in Sources : wpc[s] \in {"finished", "idle"}

C2_Witness ==
    /\ cpc = "returned"
    /\ merged.state # "none"
    /\ DOMAIN results = {GetName(s) : s \in Sources}

\* C3: after MergeResults, every itemID returned by two or more sources is in
\* the merged pool with Popularity equal to the maximum of those sources'
\* scores.
SourcesReturning(res, i) == {n \in DOMAIN res : i \in ItemIDsOf(res[n].Items)}

C3_MaxScoreOnCollision ==
    merged.state # "none" =>
        \A i \in ItemIDs :
            Cardinality(SourcesReturning(merged.input, i)) >= 2 =>
                \E k \in DOMAIN merged.items :
                    /\ merged.items[k].ItemID = i
                    /\ merged.items[k].Popularity =
                          SetMax({merged.input[n].Score : n \in SourcesReturning(merged.input, i)})

\* C4: after MergeResults, every item returned by some source is in the merged
\* pool with a provenance list that names every source that returned it.
C4_Provenance ==
    merged.state # "none" =>
        \A i \in ItemIDs :
            SourcesReturning(merged.input, i) # {} =>
                \E k \in DOMAIN merged.items :
                    /\ merged.items[k].ItemID = i
                    /\ merged.items[k].Sources # NoSources
                    /\ SourcesReturning(merged.input, i) \subseteq Range(merged.items[k].Sources)

\* C5: no itemID appears twice in the pool MergeResults returns, nor in the
\* list the hybrid GenerateRecommendations returns, whatever the recall
\* results (a source may return the same item twice) and whatever the
\* collaborative and content candidate lists.
NoRepeatedItem(items) ==
    \A a, b \in DOMAIN items : a # b => items[a].ItemID # items[b].ItemID

C5_NoDuplicateItems ==
    /\ merged.state = "ok" => NoRepeatedItem(merged.items)
    /\ hybridOut.called => NoRepeatedItem(hybridOut.recs)

\* the same source returned one item twice and the merge produced a pool
C5_PoolCase ==
    /\ merged.state = "ok"
    /\ \E n \in DOMAIN merged.input :
          \E a, b \in DOMAIN merged.input[n].Items :
              a # b /\ merged.input[n].Items[a].ItemID = merged.input[n].Items[b].ItemID

\* both engines proposed the same item among others, and the hybrid list came
\* back with it and a second item
C5_Witness ==
    /\ hybridOut.called
    /\ Len(hybridOut.recs) >= 2
    /\ \E a \in DOMAIN hybridOut.collab, b \in DOMAIN hybridOut.content,
          k \in DOMAIN hybridOut.recs :
          /\ hybridOut.collab[a].ItemID = hybridOut.content[b].ItemID
          /\ hybridOut.recs[k].ItemID = hybridOut.collab[a].ItemID
          /\ hybridOut.recs[k].CollaborativeScore = hybridOut.collab[a].Score
          /\ hybridOut.recs[k].ContentBasedScore = hybridOut.content[b].Score

\* C6: ParallelRecall returns an error exactly when no source succeeded.
C6_ErrorWhenAllFail ==
    cpc = "returned" =>
        (retErr = "nil" <=> \E s \in Sources : wres[s].state = "ok")

\* C7: a source whose recall call never returns does not keep ParallelRecall
\* from returning.
C7_HungSourceStillReturns ==
    (\E s \in Sources : wpc[s] = "hung") ~> (cpc = "returned")

\* C8: in one ParallelRecall call a source runs at most one strategy, that of
\* the first entry of recallTypes that is a known type, and it runs it whenever
\* there is such an entry, whether the strategy succeeds or fails.
C8_FirstMatchOnly ==
    \A s \in Sources :
        /\ Len(executed[s]) <= 1
        /\ executed[s] # <<>> =>
              \E k \in DOMAIN recallTypes :
                  /\ recallTypes[k] = executed[s][1]
                  /\ recallTypes[k] \in KnownTypes
                  /\ \A j \in 1..(k - 1) : recallTypes[j] \notin KnownTypes
        /\ (wpc[s] \notin {"idle", "exec"} /\ Range(recallTypes) \cap KnownTypes # {})
              => executed[s] # <<>>

C8_Witness ==
    \E s \in Sources :
        /\ Len(recallTypes) = 2
        /\ recallTypes[1] \in KnownTypes
        /\ recallTypes[2] \in KnownTypes
        /\ recallTypes[1] # recallTypes[2]
        /\ executed[s] = <<recallTypes[1]>>
        /\ wres[s].state = "err"
        /\ wpc[s] = "finished"

\* C9: Close calls Close on every source exactly once, in order, whatever
\* fails, and returns an error exactly when some source failed to close.
C9_CloseAttemptsAll ==
    closeCalled =>
        /\ closeLog = [k \in 1..NumSources |-> k]
        /\ (closeRet # {} <=> closeBad # {})

C9_Witness ==
    /\ closeCalled
    /\ 1 \in closeBad
    /\ Len(closeLog) = NumSources
    /\ closeRet # {}

\* C10: HealthCheck and Close visit every source and the error they return
\* names every source that failed.
C10_AggregateError ==
    /\ healthCalled =>
          /\ Range(healthLog) = Sources
          /\ healthRet = healthBad
    /\ closeCalled =>
          /\ Range(closeLog) = Sources
          /\ closeRet = closeBad

\* C12: no list returned for user u by UserBasedRecommend, ItemBasedRecommend,
\* the content-based or the hybrid GenerateRecommendations contains an item
\* that u has rated (AddUserRating) or interacted with (AddUserBehavior).
Interacted(u) ==
    DOMAIN MapGet(userItemMatrix, u, EmptyMap) \cup DOMAIN MapGet(userItemHistory, u, EmptyMap)

C12_HistoryExcluded ==
    /\ recOut.called =>
          \A k \in DOMAIN recOut.recs : recOut.recs[k].ItemID \notin Interacted(recOut.user)
    /\ hybridOut.called =>
          \A k \in DOMAIN hybridOut.recs :
              hybridOut.recs[k].ItemID \notin Interacted(hybridOut.user)

\* C13: a recommend call for an unknown user returns an empty list and changes
\* no engine state: UserBasedRecommend / ItemBasedRecommend for a user with no
\* rating, the content GenerateRecommendations for a user with no profile, and
\* the hybrid GenerateRecommendations when both component lists are empty.
EngineState ==
    <<userItemMatrix, itemUserMatrix, itemSimilarity, itemFeatures, userProfiles,
      userItemHistory>>

C13_UnknownUserEmpty ==
    [][/\ (/\ ~recOut.called /\ recOut'.called
           /\ \/ /\ recOut'.op \in {"UserBasedRecommend", "ItemBasedRecommend"}
                 /\ recOut'.user \notin DOMAIN userItemMatrix
              \/ /\ recOut'.op = "GenerateRecommendations"
                 /\ recOut'.user \notin DOMAIN userProfiles)
          => (recOut'.recs = <<>> /\ EngineState' = EngineState)
       /\ (/\ ~hybridOut.called /\ hybridOut'.called
           /\ hybridOut'.collab = <<>> /\ hybridOut'.content = <<>>)
          => (hybridOut'.recs = <<>> /\ EngineState' = EngineState)]_vars

\* ItemBasedRecommend returned for a user without ratings while other users'
\* ratings are recorded
C13_Witness ==
    /\ recOut.called
    /\ recOut.op = "ItemBasedRecommend"
    /\ recOut.user \notin DOMAIN userItemMatrix
    /\ DOMAIN itemUserMatrix # {}
    /\ recOut.recs = <<>>

\* C14: UserBasedRecommend and ItemBasedRecommend return the first topN
\* candidates in the order (score descending, then item identifier): at most
\* topN entries, non-increasing in score, and one list per rating state even
\* when candidates tie on score.
ItemIdOrder == <<"i1", "i2", "i3">>
ItemIdBefore(a, b) ==
    (CHOOSE k \in DOMAIN ItemIdOrder : ItemIdOrder[k] = a)
        < (CHOOSE k \in DOMAIN ItemIdOrder : ItemIdOrder[k] = b)

InRankOrder(l) ==
    \A k \in DOMAIN l : k + 1 \in DOMAIN l =>
        \/ l[k].Score > l[k + 1].Score
        \/ l[k].Score = l[k + 1].Score /\ ItemIdBefore(l[k].ItemID, l[k + 1].ItemID)

\* the full ranking of a call's candidates in that order, cut to topN
RankedFirst(lists, topN) == {FirstN(l, topN) : l \in {f \in lists : InRankOrder(f)}}

C14_DeterministicTopN ==
    (recOut.called /\ recOut.op \in {"UserBasedRecommend", "ItemBasedRecommend"}) =>
        LET all == Cardinality(CatalogItems)
            full == IF recOut.op = "UserBasedRecommend"
                    THEN UserBasedRecommendLists(userItemMatrix, recOut.user, all)
                    ELSE ItemBasedRecommendLists(userItemMatrix, itemUserMatrix,
                                                 recOut.user, all)
        IN /\ Len(recOut.recs) <= recOut.topN
           /\ recOut.recs \in RankedFirst(full, recOut.topN)

\* C15: in every HybridRecommendation the collaborative and the content
\* component score lie in [0,1], whatever ratings, features and profiles are
\* recorded, and the final score is the unclamped sum
\* base + wD*diversity + wP*popularity + wR*recency.
C15_ComponentScoresInUnit ==
    hybridOut.called =>
        \A k \in DOMAIN hybridOut.recs :
            LET rec == hybridOut.recs[k]
            IN /\ 0 <= rec.CollaborativeScore /\ rec.CollaborativeScore <= One
               /\ 0 <= rec.ContentBasedScore /\ rec.ContentBasedScore <= One
               /\ rec.Score = (CollaborativeWeight * rec.CollaborativeScore
                               + ContentBasedWeight * rec.ContentBasedScore
                               + DiversityWeight * rec.DiversityScore
                               + PopularityWeight * rec.PopularityScore
                               + RecencyWeight * rec.RecencyScore) \div 100

(* C16: the popularity score carried by every hybrid recommendation is the
   number of users who rated the item divided by the largest number of raters
   any single item has, and 0.5 when no rating is recorded at all. *)
MaxRatersPerItem ==
    MaxOf({RatingCount(userItemMatrix, i) : i \in CatalogItems} \cup {0})

C16_PopularityIsRaterShare ==
    hybridOut.called =>
        \A k \in DOMAIN hybridOut.recs :
            LET rec == hybridOut.recs[k]
            IN rec.PopularityScore =
                   IF MaxRatersPerItem = 0 THEN One \div 2
                   ELSE (RatingCount(userItemMatrix, rec.ItemID) * One) \div MaxRatersPerItem

(* C17: when topN is at least the number of distinct merged candidates, the
   hybrid GenerateRecommendations returns every merged candidate exactly
   once, whether or not its features are registered. *)
MergedCandidates ==
    {hybridOut.collab[k].ItemID : k \in DOMAIN hybridOut.collab}
        \cup {hybridOut.content[k].ItemID : k \in DOMAIN hybridOut.content}

C17_FullPoolReturned ==
    (hybridOut.called /\ hybridOut.topN >= Cardinality(MergedCandidates)) =>
        /\ {hybridOut.recs[k].ItemID : k \in DOMAIN hybridOut.recs} = MergedCandidates
        /\ Len(hybridOut.recs) = Cardinality(MergedCandidates)

(* C20: similarity is symmetric: the value CalculateUserSimilarity(a, b)
   returned equals CalculateUserSimilarity(b, a) on the same ratings, and
   likewise for CalculateItemSimilarity. *)
C20_SimilaritySymmetric ==
    /\ recOut.op = "CalculateUserSimilarity" =>
           recOut.recs[1].Score =
               CalculateUserSimilarity(userItemMatrix, recOut.recs[1].ItemID, recOut.user)
    /\ recOut.op = "CalculateItemSimilarity" =>
           recOut.recs[1].Score =
               CalculateItemSimilarity(itemUserMatrix, recOut.recs[1].ItemID, recOut.user)

\* two different users with unlike rows whose similarity was computed and is
\* not zero
C20_Witness ==
    /\ recOut.op = "CalculateUserSimilarity"
    /\ recOut.user # recOut.recs[1].ItemID
    /\ recOut.recs[1].Score # 0
    /\ userItemMatrix[recOut.user] # userItemMatrix[recOut.recs[1].ItemID]

(* C11: whenever no writer holds the collaborative engine's lock, which is
   every state a reader holding that lock can observe, the two rating indices
   agree entry by entry, and each entry is the rating of the last
   AddUserRating call that returned for that user and item. *)
RatedPairs == {p \in Users \X CatalogItems :
                  p[1] \in DOMAIN userItemMatrix /\ p[2] \in DOMAIN userItemMatrix[p[1]]}
IndexedPairs == {p \in Users \X CatalogItems :
                    p[2] \in DOMAIN itemUserMatrix /\ p[1] \in DOMAIN itemUserMatrix[p[2]]}

C11_IndicesConsistent ==
    (cpc = "locks" /\ mu["collab"].writer = "") =>
        /\ RatedPairs = IndexedPairs
        /\ RatedPairs = DOMAIN lastRated
        /\ \A p \in RatedPairs :
              /\ userItemMatrix[p[1]][p[2]] = itemUserMatrix[p[2]][p[1]]
              /\ userItemMatrix[p[1]][p[2]] = lastRated[p]

\* a reader holds the lock over two recorded ratings while a writer waits to
\* replace one of them with another value
C11_Witness ==
    /\ \E g \in Goroutines : ReadHolds("collab", g) > 0
    /\ Cardinality(RatedPairs) >= 2
    /\ \E g \in Goroutines :
          /\ At(g, "AddUserRating", "Lock")
          /\ <<gpc[g].user, gpc[g].item>> \in DOMAIN lastRated
          /\ lastRated[<<gpc[g].user, gpc[g].item>>] # gpc[g].rating

(* C18: no goroutine ever holds two of the engines' locks at the same time. *)
C18_OneLockAtATime ==
    \A g \in Goroutines : Cardinality(Holding(g)) <= 1

(* C19: no shared structure is read or written by one goroutine while another
   goroutine writes it. *)
C19_NoConflictingAccess ==
    \A g1 \in Goroutines : \A g2 \in Goroutines \ {g1} :
        \A a1 \in Accesses(g1), a2 \in Accesses(g2) :
            a1[1] = a2[1] => (a1[2] = "r" /\ a2[2] = "r")

(* C21: the list returned by the hybrid GenerateRecommendations is in greedy
   diversity order: its first element has the highest final score of all
   merged candidates, and each later position holds, among the candidates not
   placed before it, one with the highest diversity score, halved for
   candidates whose category was already selected.  (Stated for calls whose
   candidates all have registered features.) *)
HybridCandidates ==
    LET candidates == mergeRecommendations(hybridOut.collab, hybridOut.content)
        order == CHOOSE o \in Perms(DOMAIN candidates) : TRUE
    IN Range(calculateHybridScores(userItemMatrix, itemFeatures, hybridOut.user,
                                   candidates, order))

PenalizedDiversity(rec, selectedCategories) ==
    IF rec.ItemID \in DOMAIN itemFeatures
       /\ itemFeatures[rec.ItemID].Category \in selectedCategories
    THEN rec.DiversityScore \div 2
    ELSE rec.DiversityScore

C21_GreedyDiversityOrder ==
    (/\ hybridOut.called
     /\ hybridOut.recs # <<>>
     /\ \A c \in HybridCandidates : c.ItemID \in DOMAIN itemFeatures) =>
        /\ \A c \in HybridCandidates : c.Score <= hybridOut.recs[1].Score
        /\ \A k \in 2..Len(hybridOut.recs) :
              LET placed == {hybridOut.recs[j].ItemID : j \in 1..(k - 1)}
                  selectedCategories ==
                      {itemFeatures[i].Category : i \in placed \cap DOMAIN itemFeatures}
              IN \A c \in HybridCandidates :
                    c.ItemID \notin placed =>
                        PenalizedDiversity(c, selectedCategories)
                            <= PenalizedDiversity(hybridOut.recs[k], selectedCategories)

(* C22: ParallelRecall terminates whenever every data-source call returns:
   no worker is left to send on a channel that is already closed, a worker
   about to send always finds room in the channel, and once the call has
   started it returns unless some source call never returns. *)
C22_Terminates ==
    /\ [](\A s \in Sources :
            /\ (wpc[s] \in {"exec", "sendErr"}) => ~errChan.closed
            /\ (wpc[s] \in {"exec", "add", "sendDone"}) => ~doneChan.closed
            /\ wpc[s] = "sendErr" => Len(errChan.buf) < NumSources
            /\ wpc[s] = "sendDone" => Len(doneChan.buf) < NumSources)
    /\ (cpc = "launch") ~> (cpc = "returned" \/ \E s \in Sources : wpc[s] = "hung")

\* the call has returned after one worker failed and another succeeded
C22_Witness ==
    /\ cpc = "returned"
    /\ errChan.closed /\ doneChan.closed
    /\ successCount >= 1
    /\ errorCount >= 1
    /\ \A s \in Sources : wpc[s] = "finished"

(* C23: a UserBasedRecommend or ItemBasedRecommend call that has taken the
   read lock always completes, whatever AddUserRating calls run concurrently. *)
C23_RecommendCompletes ==
    \A g \in Goroutines :
        (gpc[g].op \in {"UserBasedRecommend", "ItemBasedRecommend"}) ~> (gpc[g] = Idle)

(* C24: MergeResults completes normally for every set of stored results, and
   it leaves the stored results and the metadata maps of the sources' item
   records as they were. *)
C24_MergeLeavesInputs ==
    merged.state # "none" =>
        /\ merged.state = "ok"
        /\ results = merged.input
        /\ \A ref \in MapRefs : heap[ref] = NoSources

(* C25: AddUserBehavior for an item with registered features first
   multiplies every weight of the profile by decayFactor^(days since the
   profile's last update), then adds learningRate*rating*featureValue to the
   weight of each feature of the item and learningRate*rating to the
   preference of each keyword and of the category, and sets the update time
   to now; with no time elapsed the old weights enter undecayed. *)
ProfileBefore(u) ==
    IF u \in DOMAIN userProfiles THEN userProfiles[u]
    ELSE [UserID |-> u, FeatureVector |-> EmptyMap, Preferences |-> EmptyMap,
          UpdateTime |-> now]

\* an old weight after `days` days: untouched when no time has passed
WeightAfter(weight, days) == IF days = 0 THEN weight ELSE Decayed(weight, days)

C25_IncrementalProfile ==
    [][\A u \in QueryUsers, i \in CatalogItems :
          (/\ cpc = "profile"
           /\ i \in DOMAIN itemFeatures
           /\ i \notin DOMAIN MapGet(userItemHistory, u, EmptyMap)
           /\ i \in DOMAIN MapGet(userItemHistory', u, EmptyMap)) =>
              LET item == itemFeatures[i]
                  rating == userItemHistory'[u][i]
                  old == ProfileBefore(u)
                  days == now - old.UpdateTime
                  new == userProfiles'[u]
                  step == SignedDiv(LearningRate * rating * One, 100)
              IN /\ new.UpdateTime = now
                 /\ DOMAIN new.FeatureVector =
                        DOMAIN old.FeatureVector \cup DOMAIN item.Features
                 /\ \A f \in DOMAIN new.FeatureVector :
                        new.FeatureVector[f] =
                            WeightAfter(MapGet(old.FeatureVector, f, 0), days)
                            + (IF f \in DOMAIN item.Features
                               THEN step * item.Features[f] ELSE 0)
                 /\ DOMAIN new.Preferences =
                        DOMAIN old.Preferences \cup Range(item.Keywords) \cup {item.Category}
                 /\ \A p \in DOMAIN new.Preferences :
                        new.Preferences[p] =
                            WeightAfter(MapGet(old.Preferences, p, 0), days)
                            + KeywordCount(item.Keywords, p) * step
                            + (IF p = item.Category THEN step ELSE 0)
      ]_vars

\* a profile built from two interactions a day apart
C25_Witness ==
    /\ cpc = "profile"
    /\ "u1" \in DOMAIN userProfiles
    /\ userProfiles["u1"].UpdateTime = 2
    /\ Cardinality(DOMAIN userItemHistory["u1"]) = 2
    /\ "c1" \in DOMAIN userProfiles["u1"].Preferences
    /\ userProfiles["u1"].Preferences["c1"] =
          Decayed(SignedDiv(LearningRate * 5 * One, 100), 1)
          + SignedDiv(LearningRate * 5 * One, 100)

(* C26: the hybrid merge is keyed by itemID with no imputation: the merged
   candidates are exactly the items of the two lists, each with the score it
   has in a list and 0 for a list it is not in, and every recommendation
   returned carries these two component scores. *)
ScoreIn(list, i) ==
    IF \E k \in DOMAIN list : list[k].ItemID = i
    THEN (CHOOSE rec \in Range(list) : rec.ItemID = i).Score
    ELSE 0

C26_MergeByItemID ==
    hybridOut.called =>
        LET candidates == mergeRecommendations(hybridOut.collab, hybridOut.content)
        IN /\ DOMAIN candidates = MergedCandidates
           /\ \A i \in DOMAIN candidates :
                 /\ candidates[i].ItemID = i
                 /\ candidates[i].CollaborativeScore = ScoreIn(hybridOut.collab, i)
                 /\ candidates[i].ContentBasedScore = ScoreIn(hybridOut.content, i)
           /\ \A k \in DOMAIN hybridOut.recs :
                 LET rec == hybridOut.recs[k]
                 IN /\ rec.ItemID \in MergedCandidates
                    /\ rec.CollaborativeScore = ScoreIn(hybridOut.collab, rec.ItemID)
                    /\ rec.ContentBasedScore = ScoreIn(hybridOut.content, rec.ItemID)

\* a call that returned one item found in both lists and one found only in
\* the content list
C26_Witness ==
    /\ hybridOut.called
    /\ \E k \in DOMAIN hybridOut.recs :
          /\ hybridOut.recs[k].CollaborativeScore > 0
          /\ hybridOut.recs[k].ContentBasedScore > 0
    /\ \E k \in DOMAIN hybridOut.recs :
          /\ hybridOut.recs[k].ContentBasedScore > 0
          /\ hybridOut.recs[k].CollaborativeScore = 0
          /\ \A j \in DOMAIN hybridOut.collab :
                hybridOut.collab[j].ItemID # hybridOut.recs[k].ItemID
(* C27: the confidence of every recommendation returned by the hybrid engine
   is 0.9 if its collaborative and content scores are both above 0.5,
   otherwise 0.3 if the two scores differ by more than 0.8, otherwise 0.7,
   and so lies between 0 and 1. *)
C27_ConfidenceThreeValues ==
    hybridOut.called =>
        \A k \in DOMAIN hybridOut.recs :
            LET rec == hybridOut.recs[k]
                diff == IF rec.CollaborativeScore >= rec.ContentBasedScore
                        THEN rec.CollaborativeScore - rec.ContentBasedScore
                        ELSE rec.ContentBasedScore - rec.CollaborativeScore
                bothHigh == rec.CollaborativeScore > (One \div 2)
                            /\ rec.ContentBasedScore > (One \div 2)
            IN /\ bothHigh => rec.Confidence = (9 * One) \div 10
               /\ (~bothHigh /\ diff > (8 * One) \div 10)
                      => rec.Confidence = (3 * One) \div 10
               /\ (~bothHigh /\ diff <= (8 * One) \div 10)
                      => rec.Confidence = (7 * One) \div 10
               /\ rec.Confidence >= 0
               /\ rec.Confidence <= One

\* a call that returned an item both engines score above 0.5 although the two
\* scores differ by more than 0.8, next to an item only one engine scores high
C27_Witness ==
    /\ hybridOut.called
    /\ \E k \in DOMAIN hybridOut.recs :
          /\ hybridOut.recs[k].Confidence = (9 * One) \div 10
          /\ hybridOut.recs[k].CollaborativeScore - hybridOut.recs[k].ContentBasedScore
                > (8 * One) \div 10
    /\ \E k \in DOMAIN hybridOut.recs :
          hybridOut.recs[k].Confidence = (3 * One) \div 10
(* C28: CalculateUserSimilarity returns 0 when either user has no recorded
   rating or when fewer than MinCommonItems items were rated by both, and the
   collaborative list of a recommendation is built from the other users whose
   similarity reaches SimilarityThreshold only, no more than MaxNeighbors of
   them: every item listed was rated by such a user and its score is the sum
   of similarity times rating over them. *)
Neighbours(u) ==
    {v \in DOMAIN userItemMatrix \ {u} :
        CalculateUserSimilarity(userItemMatrix, u, v) >= SimilarityThreshold}

C28_SimilarityGates ==
    /\ recOut.op = "CalculateUserSimilarity" =>
          LET a == recOut.user
              b == recOut.recs[1].ItemID
          IN (\/ a \notin DOMAIN userItemMatrix
              \/ b \notin DOMAIN userItemMatrix
              \/ Cardinality(DOMAIN userItemMatrix[a] \cap DOMAIN userItemMatrix[b])
                    < MinCommonItems)
             => recOut.recs[1].Score = 0
    /\ (cpc = "matrix" /\ hybridOut.called) =>
          LET u == hybridOut.user
          IN /\ Cardinality(Neighbours(u)) <= MaxNeighbors
             /\ \A k \in DOMAIN hybridOut.collab :
                   LET i == hybridOut.collab[k].ItemID
                       raters == {v \in Neighbours(u) : i \in DOMAIN userItemMatrix[v]}
                   IN /\ raters # {}
                      /\ hybridOut.collab[k].Score =
                            SumOver(raters,
                                    [v \in raters |->
                                       CalculateUserSimilarity(userItemMatrix, u, v)
                                         * userItemMatrix[v][i]])

\* a recommendation whose collaborative list is not empty: the other user
\* reached the threshold and rated items the asking user did not
C28_Witness ==
    /\ cpc = "matrix"
    /\ hybridOut.called
    /\ hybridOut.collab # <<>>
    /\ Neighbours(hybridOut.user) # {}
(* C29: AddUserBehavior for an item whose features are not registered
   records the interaction in the user's history and leaves userProfiles as
   it was, so no profile is created and no existing profile changes; a user
   none of whose interactions was with a registered item gets an empty list
   from the content engine. *)
C29_UnregisteredLeavesProfiles ==
    /\ [][\A u \in QueryUsers, i \in CatalogItems :
            (/\ cpc = "profile"
             /\ i \notin DOMAIN itemFeatures
             /\ i \notin DOMAIN MapGet(userItemHistory, u, EmptyMap)
             /\ i \in DOMAIN MapGet(userItemHistory', u, EmptyMap)) =>
                /\ userProfiles' = userProfiles
                /\ \A j \in DOMAIN MapGet(userItemHistory, u, EmptyMap) :
                      userItemHistory'[u][j] = userItemHistory[u][j]
         ]_vars
    /\ [](\A u \in QueryUsers :
            (/\ cpc = "profile"
             /\ recOut.called
             /\ recOut.op = "GenerateRecommendations"
             /\ recOut.user = u
             /\ DOMAIN MapGet(userItemHistory, u, EmptyMap) \cap DOMAIN itemFeatures = {})
                => /\ u \notin DOMAIN userProfiles
                   /\ recOut.recs = <<>>)

\* a user with an interaction with an unregistered item and none with a
\* registered one asked for recommendations while another item was registered
C29_Witness ==
    /\ cpc = "profile"
    /\ recOut.called
    /\ recOut.op = "GenerateRecommendations"
    /\ DOMAIN MapGet(userItemHistory, recOut.user, EmptyMap) # {}
    /\ DOMAIN MapGet(userItemHistory, recOut.user, EmptyMap) \cap DOMAIN itemFeatures = {}
    /\ DOMAIN itemFeatures # {}
    /\ recOut.user \notin DOMAIN userProfiles
    /\ recOut.recs = <<>>
(* C30: every key of userItemMatrix, of itemUserMatrix and of the content
   engine's userItemHistory maps to a non-empty map, whatever ratings and
   interactions were added and whatever query ran. *)
C30_NoEmptyInnerMap ==
    /\ \A u \in DOMAIN userItemMatrix : DOMAIN userItemMatrix[u] # {}
    /\ \A i \in DOMAIN itemUserMatrix : DOMAIN itemUserMatrix[i] # {}
    /\ \A u \in DOMAIN userItemHistory : DOMAIN userItemHistory[u] # {}

\* ratings and an interaction were added and a query has run since
C30_Witness ==
    /\ cpc = "engine"
    /\ Cardinality(DOMAIN userItemMatrix) = 2
    /\ Cardinality(DOMAIN itemUserMatrix) >= 2
    /\ DOMAIN userItemHistory # {}
    /\ (recOut.called \/ hybridOut.called)
====
